---- MODULE Spec2Model ----
(***************************************************************************)
(* The issue store of the municipality reporting portal                    *)
(* (src/municipality-reporting/src/app/utils/localStorage.ts): the array   *)
(* of Issue records kept under the localStorage key "limpopo_issues" and   *)
(* the operations of storageUtils that create and mutate it.               *)
(*                                                                         *)
(* A stored record is the JSON object the code writes: a function from     *)
(* field names to values in which an optional field that is undefined is   *)
(* absent (JSON.stringify drops it).  Text built by a template literal is  *)
(* the sequence of its pieces.  Timestamps are readings of the clock.      *)
(***************************************************************************)
EXTENDS Integers, Sequences, FiniteSets, TLC

VARIABLES
    issues,     \* localStorage["limpopo_issues"], parsed: a sequence of Issue records
    now,        \* the reading of Date.now() / new Date()
    audit,      \* per stored issue (by position): what has happened to it, for the claims
    tabs,       \* per browser tab: the mutation it runs, from its read of the list to its write
    submit,     \* the report a resident is submitting, from the gateway call to addIssue
    users,      \* localStorage["limpopo_users"], parsed: the user directory
    currentUser,\* localStorage["limpopo_current_user"], parsed; absent when nobody is logged in
    page,       \* the page the browser shows and the state of its component
    answer      \* what the last read-only query was called with and what it returned

vars == <<issues, now, audit, tabs, submit, users, currentUser, page, answer>>

\* the browser session and the queries, which the store operations leave alone
portal == <<users, currentUser, page, answer>>

----------------------------------------------------------------------------
(* Bounds of the model *)

MaxIssues == 2      \* issues the store may hold
MaxCalls == 2       \* calls that find their issue, over the whole store, after which none is made
MaxReports == 1     \* reports a resident submits through the form or the photo page
MaxClock == 2       \* last reading of the clock (the first is 1)

----------------------------------------------------------------------------
(* Helpers for JSON objects *)

Absent == [k \in {} |-> 0]

Has(o, k) == k \in DOMAIN o

\* { ...a, ...b }: the fields of b win
Spread(a, b) == b @@ a

Without(o, ks) == [k \in DOMAIN o \ ks |-> o[k]]

\* truthiness of a string-or-undefined field, as in `o.k || ""` and `!o.k`
Truthy(o, k) == Has(o, k) /\ o[k] # ""

SetAt(list, i, v) == [list EXCEPT ![i] = v]

----------------------------------------------------------------------------
(* The values the operations are called with *)

Statuses == {"pending", "in-progress", "resolved", "rejected"}

\* the user directory (localStorage["limpopo_users"]); the store only reads it
Users ==
    { [id |-> "E1", firstName |-> "Eve", lastName |-> "Water", role |-> "employee", department |-> "water"],
      [id |-> "E2", firstName |-> "Rob", lastName |-> "Roads", role |-> "employee", department |-> "roads"],
      [id |-> "S1", firstName |-> "Sam", lastName |-> "Staff", role |-> "staff"],
      [id |-> "R1", firstName |-> "Jane", lastName |-> "Doe", role |-> "resident"] }

\* the users a directory may be made of: the employees, staff and residents of
\* Users, a staff member who carries a department and an employee who has none
UserPool ==
    << [id |-> "E1", firstName |-> "Eve", lastName |-> "Water", role |-> "employee", department |-> "water"],
       [id |-> "S2", firstName |-> "Sue", lastName |-> "Super", role |-> "staff", department |-> "water"],
       [id |-> "E2", firstName |-> "Rob", lastName |-> "Roads", role |-> "employee", department |-> "roads"],
       [id |-> "E3", firstName |-> "Ned", lastName |-> "New", role |-> "employee"],
       [id |-> "R1", firstName |-> "Jane", lastName |-> "Doe", role |-> "resident"],
       [id |-> "S1", firstName |-> "Sam", lastName |-> "Staff", role |-> "staff"] >>

FullName(u) == <<u.firstName, " ", u.lastName>>

StaffName == FullName(CHOOSE u \in Users : u.role = "staff")
ResidentName == FullName(CHOOSE u \in Users : u.role = "resident")

Departments == {"roads", "water"}

Feedbacks == {"", "Still broken"}

\* ids a caller may pass: the id of any stored issue, and one that no issue has
\* (the clock starts at 1)
UnknownId == "0"
IssueIds == {issues[i].id : i \in 1..Len(issues)} \cup {UnknownId}

\* what the report forms pass to addIssue (resident-dashboard and create-report)
NewIssueInputs ==
    { [userId |-> "R1", userName |-> ResidentName, title |-> "Burst pipe",
       description |-> "Water flooding street", category |-> "water",
       location |-> "Main Rd", status |-> "pending", priority |-> "medium"] }

\* a resolvedAt a caller could put in `updates`: a timestamp that is no reading of the clock
CallerTimestamp == 0

\* the statusHistory a caller could put in `updates`
ForeignHistory == << >>

\* The calls of updateIssue(issueId, updates, changedBy, note) the staff dashboard
\* makes: `updates` carries the status and the staff notes of the modal, and a
\* resolvedAt when the modal's status is "resolved".  A caller of the API may
\* also put a statusHistory in `updates`.
UpdateCalls ==
    LET plain(s) == [status |-> s, staffNotes |-> "seen"]
        actor == [changedBy |-> StaffName, note |-> <<"Issue updated by staff">>]
    IN  { [updates |-> plain(s)] @@ actor : s \in Statuses }
        \cup { [updates |-> plain("resolved") @@ [resolvedAt |-> CallerTimestamp]] @@ actor }
        \cup { [updates |-> plain("in-progress") @@ [statusHistory |-> ForeignHistory]]
                 @@ actor }

\* What the staff modal may hold when it is saved: a department or none, and an
\* employee or none
ModalData ==
    { [department |-> d, assignedToEmployee |-> e] :
        d \in Departments \cup {""}, e \in {"", "E1"} }

\* (altered) the modal assigns whenever an employee is selected
ModalAssignsAnyDepartment(modal) ==
    modal.assignedToEmployee # ""

\* modalData.department && modalData.assignedToEmployee
ModalAssigns(modal) ==
    modal.department # "" /\ modal.assignedToEmployee # ""

\* The calls of assignIssue the modal makes: the employee found among all employees
\* (employees.find), with their own department or with another
AssignCalls ==
    UNION { { [department |-> modal.department, employee |-> u] :
                u \in {u \in Users : u.role = "employee"
                                      /\ u.id = modal.assignedToEmployee} } :
            modal \in {m \in ModalData : ModalAssigns(m)} }

----------------------------------------------------------------------------
(* storageUtils: the issue operations, as functions of the parsed list *)

\* users.filter(user => user.role === "employee" && user.department === department)
GetEmployeesByDepartment(department) ==
    { u \in Users : u.role = "employee" /\ Has(u, "department") /\ u.department = department }

\* issues.findIndex(issue => issue.id === issueId): the first match, 0 for -1
FindIndex(list, issueId) ==
    IF \E i \in 1..Len(list) : list[i].id = issueId
    THEN CHOOSE i \in 1..Len(list) :
            /\ list[i].id = issueId
            /\ \A j \in 1..(i - 1) : list[j].id # issueId
    ELSE 0

\* issues[index].statusHistory || []
HistoryOf(issue) == IF Has(issue, "statusHistory") THEN issue.statusHistory ELSE << >>

\* (altered) the first entry is in the name of the reporter
AddIssueRecordByReporter(input, t) ==
    Spread(input,
           [id |-> ToString(t), createdAt |-> t, updatedAt |-> t, viewCount |-> 0,
            statusHistory |-> << [status |-> input.status, changedBy |-> input.userName,
                                  changedAt |-> t, note |-> <<"Report created">>] >>])

AddIssueRecord(input, t) ==
    Spread(input,
           [id |-> ToString(t), createdAt |-> t, updatedAt |-> t, viewCount |-> 0,
            statusHistory |-> << [status |-> input.status, changedBy |-> <<"System">>,
                                  changedAt |-> t, note |-> <<"Report created">>] >>])

AddIssueResult(list, input, t) == Append(list, AddIssueRecord(input, t))

\* the entry updateIssue pushes; an undefined note is not stored
UpdateEntry(call, t) ==
    [status |-> call.updates.status,
     changedBy |-> IF Has(call, "changedBy") THEN call.changedBy ELSE <<"System">>,
     changedAt |-> t]
    @@ (IF Has(call, "note") THEN [note |-> call.note] ELSE Absent)

\* (altered) no entry is pushed when the issue leaves "resolved"
StatusChangesUnlessResolved(old, call) ==
    /\ Has(call.updates, "status")
    /\ call.updates.status # old.status
    /\ old.status # "resolved"

\* newStatus && newStatus !== oldStatus
StatusChanges(old, call) ==
    /\ Has(call.updates, "status")
    /\ call.updates.status # old.status

\* (altered) an entry is pushed whenever `updates` carries a status
UpdateHistoryAlways(old, call, t) ==
    IF Has(call.updates, "status")
    THEN Append(HistoryOf(old), [status |-> call.updates.status, changedAt |-> t])
    ELSE HistoryOf(old)

UpdateHistory(old, call, t) ==
    IF StatusChanges(old, call)
    THEN Append(HistoryOf(old), UpdateEntry(call, t))
    ELSE HistoryOf(old)

\* (altered) resolvedAt is set again on every update to "resolved", and a resolvedAt of
\* `updates` is kept otherwise
UpdateResolvedAtOverwrites(old, call, merged, t) ==
    IF Has(call.updates, "status") /\ call.updates.status = "resolved"
    THEN Spread(merged, [resolvedAt |-> t])
    ELSE merged

\* resolvedAt: newStatus === "resolved" && !old.resolvedAt ? now : old.resolvedAt
\* (written after ...updates, so it replaces a resolvedAt of updates; undefined is dropped)
UpdateResolvedAt(old, call, merged, t) ==
    IF Has(call.updates, "status") /\ call.updates.status = "resolved" /\ ~Has(old, "resolvedAt")
    THEN Spread(merged, [resolvedAt |-> t])
    ELSE IF Has(old, "resolvedAt")
         THEN Spread(merged, [resolvedAt |-> old.resolvedAt])
         ELSE Without(merged, {"resolvedAt"})

\* (altered) { ...updates, ...issues[index] }: the stored fields win
UpdateIssueRecordStoredWins(old, call, t) ==
    Spread(Spread(call.updates, old), [updatedAt |-> t])

\* (altered) ...updates is spread last, over statusHistory and updatedAt
UpdateIssueRecordUpdatesLast(old, call, t) ==
    Spread(Spread(old, [statusHistory |-> HistoryOf(old), updatedAt |-> t]), call.updates)

UpdateIssueRecord(old, call, t) ==
    UpdateResolvedAt(old, call,
        Spread(Spread(old, call.updates),
               [statusHistory |-> UpdateHistory(old, call, t), updatedAt |-> t]),
        t)

\* (altered) an unknown id makes a new record of the updates
UpdateIssueResultUpsert(list, issueId, call, t) ==
    LET index == FindIndex(list, issueId)
    IN  IF index = 0
        THEN Append(list, Spread(call.updates, [id |-> issueId, updatedAt |-> t]))
        ELSE SetAt(list, index, UpdateIssueRecord(list[index], call, t))

UpdateIssueResult(list, issueId, call, t) ==
    LET index == FindIndex(list, issueId)
    IN  IF index = 0 THEN list
        ELSE SetAt(list, index, UpdateIssueRecord(list[index], call, t))

\* (altered) the employee must be in the pool of the department
AssignIssueRecordValidated(old, department, employeeId, employeeName, assignedBy, t) ==
    IF \E u \in GetEmployeesByDepartment(department) : u.id = employeeId
    THEN Spread(old, [department |-> department, assignedToEmployee |-> employeeId,
                      assignedToEmployeeName |-> employeeName, assignedBy |-> assignedBy,
                      assignedAt |-> t, updatedAt |-> t])
    ELSE old

\* (altered) an assigned issue is put in progress
AssignIssueRecordStartsWork(old, department, employeeId, employeeName, assignedBy, t) ==
    Spread(old,
           [department |-> department, assignedToEmployee |-> employeeId,
            assignedToEmployeeName |-> employeeName, assignedBy |-> assignedBy,
            assignedAt |-> t, status |-> "in-progress",
            statusHistory |->
                Append(HistoryOf(old),
                       [status |-> "in-progress", changedBy |-> assignedBy,
                        changedAt |-> t]),
            updatedAt |-> t])

AssignIssueRecord(old, department, employeeId, employeeName, assignedBy, t) ==
    Spread(old,
           [department |-> department,
            assignedToEmployee |-> employeeId,
            assignedToEmployeeName |-> employeeName,
            assignedBy |-> assignedBy,
            assignedAt |-> t,
            statusHistory |->
                Append(HistoryOf(old),
                       [status |-> old.status, changedBy |-> assignedBy, changedAt |-> t,
                        note |-> <<"Assigned to ", department, " department - ">>
                                 \o employeeName]),
            updatedAt |-> t])

AssignIssueResult(list, issueId, department, employeeId, employeeName, assignedBy, t) ==
    LET index == FindIndex(list, issueId)
    IN  IF index = 0 THEN list
        ELSE SetAt(list, index,
                   AssignIssueRecord(list[index], department, employeeId, employeeName,
                                     assignedBy, t))

\* (altered) only a resolved issue can be confirmed
ConfirmResolutionRecordChecked(old, residentName, t) ==
    IF old.status = "resolved"
    THEN Spread(old, [residentConfirmed |-> TRUE, residentConfirmedAt |-> t, updatedAt |-> t])
    ELSE old

ConfirmResolutionRecord(old, residentName, t) ==
    Spread(old,
           [residentConfirmed |-> TRUE,
            residentConfirmedAt |-> t,
            statusHistory |->
                Append(HistoryOf(old),
                       [status |-> old.status, changedBy |-> residentName, changedAt |-> t,
                        note |-> <<"Resident confirmed issue has been resolved">>]),
            updatedAt |-> t])

ConfirmResolutionResult(list, issueId, residentName, t) ==
    LET index == FindIndex(list, issueId)
    IN  IF index = 0 THEN list
        ELSE SetAt(list, index, ConfirmResolutionRecord(list[index], residentName, t))

RejectNote(feedback) == <<"Resident reported issue not resolved: ", feedback>>

\* (altered) reopening the issue clears resolvedAt
RejectResolutionRecordClearsResolvedAt(old, residentName, feedback, t) ==
    Without(Spread(old,
                   [status |-> "in-progress", residentRejected |-> TRUE,
                    residentRejectedAt |-> t, residentFeedback |-> feedback,
                    statusHistory |->
                        Append(HistoryOf(old),
                               [status |-> "in-progress", changedBy |-> residentName,
                                changedAt |-> t, note |-> RejectNote(feedback)]),
                    updatedAt |-> t]),
            {"resolvedAt"})

\* (altered) a rejection without feedback is refused
RejectResolutionRecordNeedsFeedback(old, residentName, feedback, t) ==
    IF feedback = "" THEN old
    ELSE Spread(old,
                [status |-> "in-progress", residentRejected |-> TRUE,
                 residentRejectedAt |-> t, residentFeedback |-> feedback,
                 statusHistory |->
                     Append(HistoryOf(old),
                            [status |-> "in-progress", changedBy |-> residentName,
                             changedAt |-> t, note |-> RejectNote(feedback)]),
                 updatedAt |-> t])

RejectResolutionRecord(old, residentName, feedback, t) ==
    Spread(old,
           [status |-> "in-progress",
            residentRejected |-> TRUE,
            residentRejectedAt |-> t,
            residentFeedback |-> feedback,
            statusHistory |->
                Append(HistoryOf(old),
                       [status |-> "in-progress", changedBy |-> residentName,
                        changedAt |-> t, note |-> RejectNote(feedback)]),
            updatedAt |-> t])

RejectResolutionResult(list, issueId, residentName, feedback, t) ==
    LET index == FindIndex(list, issueId)
    IN  IF index = 0 THEN list
        ELSE SetAt(list, index,
                   RejectResolutionRecord(list[index], residentName, feedback, t))

\* issues[index].viewCount = (issues[index].viewCount || 0) + 1
IncrementViewCountResult(list, issueId) ==
    LET index == FindIndex(list, issueId)
    IN  IF index = 0 THEN list
        ELSE SetAt(list, index,
                   Spread(list[index],
                          [viewCount |-> (IF Has(list[index], "viewCount")
                                          THEN list[index].viewCount ELSE 0) + 1]))

\* what a mutation returns, `result` being the list it stores: null (no record) when
\* the id is not found, and the record it stored otherwise
Returned(list, issueId, result) ==
    LET index == FindIndex(list, issueId)
    IN  IF index = 0 THEN Absent ELSE result[index]

----------------------------------------------------------------------------
(* What has happened to each stored issue (by position in the list):        *)
(*   createdStatus  the status addIssue was given                           *)
(*   everResolved   the status has been "resolved" after some operation     *)
(*   calls          updateIssue, assignIssue, confirmResolution and         *)
(*                  rejectResolution calls that found the issue             *)
(*   unchanged      those of them that were an updateIssue to the status    *)
(*                  the issue already had                                   *)
(*   last           the last operation on the issue: its name and           *)
(*                  arguments, the clock reading and the record it found    *)

NewAudit(input, t) ==
    [createdStatus |-> input.status, everResolved |-> input.status = "resolved",
     calls |-> 0, unchanged |-> 0, last |-> [op |-> "addIssue", at |-> t]]

\* the operation `op` found the record issues[index]
Found(op, index) == op @@ [at |-> now, before |-> issues[index]]

\* the audit after the call `op` that found the issue at `index` and stored `list`
Called(list, index, sameStatus, op) ==
    [audit EXCEPT ![index] =
        [@ EXCEPT !.calls = @ + 1,
                  !.unchanged = @ + (IF sameStatus THEN 1 ELSE 0),
                  !.everResolved = @ \/ list[index].status = "resolved",
                  !.last = Found(op, index)]]

\* the calls and views the first n stored issues have taken
RECURSIVE SumCalls(_)
SumCalls(n) ==
    IF n = 0 THEN 0
    ELSE audit[n].calls + issues[n].viewCount + SumCalls(n - 1)

\* calls are made while fewer than MaxCalls of them have found their issue
MayCall == SumCalls(Len(issues)) < MaxCalls

\* no report is being submitted
NoSubmission == [pc |-> "idle"]

\* nobody is logged in, the landing page is shown and no query has been made
NoPortal ==
    /\ users = SelectSeq(UserPool, LAMBDA u : u \in Users)
    /\ currentUser = Absent
    /\ page = [path |-> "/landing", state |-> "rendered"]
    /\ answer = Absent

----------------------------------------------------------------------------
(* One tab: every operation runs from its read of the list to its write *)

Init ==
    /\ issues = << >>
    /\ now = 1
    /\ audit = << >>
    /\ tabs = << >>
    /\ submit = NoSubmission
    /\ NoPortal

Tick ==
    /\ now < MaxClock
    /\ now' = now + 1
    /\ UNCHANGED <<issues, audit, tabs, submit, portal>>

AddIssue(input) ==
    /\ Len(issues) < MaxIssues
    /\ issues' = AddIssueResult(issues, input, now)
    /\ audit' = Append(audit, NewAudit(input, now))
    /\ UNCHANGED <<now, tabs, submit, portal>>

UpdateIssue(issueId, call) ==
    LET index == FindIndex(issues, issueId)
        list == UpdateIssueResult(issues, issueId, call, now)
    IN  /\ MayCall
        /\ issues' = list
        /\ audit' = IF index = 0 THEN audit
                    ELSE Called(list, index, call.updates.status = issues[index].status,
                                [op |-> "updateIssue", call |-> call])
        /\ UNCHANGED <<now, tabs, submit, portal>>

AssignIssue(issueId, department, employee, assignedBy) ==
    LET index == FindIndex(issues, issueId)
        list == AssignIssueResult(issues, issueId, department, employee.id,
                                  FullName(employee), assignedBy, now)
    IN  /\ MayCall
        /\ issues' = list
        /\ audit' = IF index = 0 THEN audit
                    ELSE Called(list, index, FALSE,
                                [op |-> "assignIssue", department |-> department,
                                 employee |-> employee, assignedBy |-> assignedBy])
        /\ UNCHANGED <<now, tabs, submit, portal>>

ConfirmResolution(issueId, residentName) ==
    LET index == FindIndex(issues, issueId)
        list == ConfirmResolutionResult(issues, issueId, residentName, now)
    IN  /\ MayCall
        /\ issues' = list
        /\ audit' = IF index = 0 THEN audit
                    ELSE Called(list, index, FALSE,
                                [op |-> "confirmResolution", residentName |-> residentName])
        /\ UNCHANGED <<now, tabs, submit, portal>>

RejectResolution(issueId, residentName, feedback) ==
    LET index == FindIndex(issues, issueId)
        list == RejectResolutionResult(issues, issueId, residentName, feedback, now)
    IN  /\ MayCall
        /\ issues' = list
        /\ audit' = IF index = 0 THEN audit
                    ELSE Called(list, index, FALSE,
                                [op |-> "rejectResolution", residentName |-> residentName,
                                 feedback |-> feedback])
        /\ UNCHANGED <<now, tabs, submit, portal>>

IncrementViewCount(issueId) ==
    LET index == FindIndex(issues, issueId)
    IN  /\ MayCall
        /\ issues' = IncrementViewCountResult(issues, issueId)
        /\ audit' = IF index = 0 THEN audit
                    ELSE [audit EXCEPT ![index].last =
                            Found([op |-> "incrementViewCount"], index)]
        /\ UNCHANGED <<now, tabs, submit, portal>>

Next ==
    \/ Tick
    \/ \E input \in NewIssueInputs : AddIssue(input)
    \/ \E issueId \in IssueIds, call \in UpdateCalls : UpdateIssue(issueId, call)
    \/ \E issueId \in IssueIds, a \in AssignCalls :
            AssignIssue(issueId, a.department, a.employee, StaffName)
    \/ \E issueId \in IssueIds : ConfirmResolution(issueId, ResidentName)
    \/ \E issueId \in IssueIds, feedback \in Feedbacks :
            RejectResolution(issueId, ResidentName, feedback)
    \/ \E issueId \in IssueIds : IncrementViewCount(issueId)

Spec == Init /\ [][Next]_vars

----------------------------------------------------------------------------
(* Two tabs on one store: a mutation reads the whole list from localStorage, *)
(* changes one record of its copy and writes the whole copy back; another   *)
(* tab may read or write the store between the two steps.                   *)

Tabs == {"tab1", "tab2"}

\* the calls the dashboards of a tab may start on the store holding `list`: the
\* mutations of its issues and the creation of a report
TabOps(list) ==
    LET ids == {list[i].id : i \in 1..Len(list)}
        \* the modal's updates carry a resolvedAt exactly when its status is
        \* "resolved" and the selected issue is not resolved
        calls(i) == {call \in UpdateCalls :
                        /\ ~Has(call.updates, "statusHistory")
                        /\ Has(call.updates, "resolvedAt")
                              = (call.updates.status = "resolved"
                                    /\ list[i].status # "resolved")}
    IN  UNION {{[op |-> "updateIssue", issueId |-> list[i].id, call |-> call] :
                    call \in calls(i)} : i \in 1..Len(list)}
        \cup {[op |-> "assignIssue", issueId |-> id, department |-> a.department,
               employee |-> a.employee, assignedBy |-> StaffName] :
                id \in ids, a \in AssignCalls}
        \cup {[op |-> "confirmResolution", issueId |-> id,
               residentName |-> ResidentName] : id \in ids}
        \cup {[op |-> "rejectResolution", issueId |-> id, residentName |-> ResidentName,
               feedback |-> feedback] : id \in ids, feedback \in Feedbacks}
        \cup {[op |-> "addIssue", input |-> input] : input \in NewIssueInputs}

\* the list the mutation `op` makes of the list it has read, at clock reading t
ApplyOp(op, list, t) ==
    CASE op.op = "addIssue" ->
            AddIssueResult(list, op.input, t)
      [] op.op = "updateIssue" ->
            UpdateIssueResult(list, op.issueId, op.call, t)
      [] op.op = "assignIssue" ->
            AssignIssueResult(list, op.issueId, op.department, op.employee.id,
                              FullName(op.employee), op.assignedBy, t)
      [] op.op = "confirmResolution" ->
            ConfirmResolutionResult(list, op.issueId, op.residentName, t)
      [] op.op = "rejectResolution" ->
            RejectResolutionResult(list, op.issueId, op.residentName, op.feedback, t)

\* a write that would start from the list the store holds at the time of the write
WrittenFromStore(read, stored, op, t) == ApplyOp(op, stored, t)

\* what setItem stores: the copy the mutation read, with its one record changed;
\* the list the store holds by then is not looked at
Written(read, stored, op, t) == ApplyOp(op, read, t)

\* the number of writes the store has taken
Writes ==
    CHOOSE n \in {tabs[tab].wrote : tab \in Tabs} :
        \A tab \in Tabs : tabs[tab].wrote <= n

\* the number of mutations the tabs have started
RECURSIVE TabCalls(_)
TabCalls(S) ==
    IF S = {} THEN 0
    ELSE LET tab == CHOOSE tab \in S : TRUE
         IN  tabs[tab].calls + TabCalls(S \ {tab})

\* the store holds one report, as created or after staff resolved it; no tab has
\* started a mutation
InitTabs ==
    /\ \E input \in NewIssueInputs :
          LET created == AddIssueResult(<< >>, input, 1)
          IN  \/ issues = created
              \/ \E call \in UpdateCalls :
                    /\ Has(call.updates, "resolvedAt")
                    /\ issues = UpdateIssueResult(created, created[1].id, call, 1)
    /\ now = 1
    /\ audit = << >>
    /\ tabs = [tab \in Tabs |-> [pc |-> "idle", calls |-> 0, wrote |-> 0]]
    /\ submit = NoSubmission
    /\ NoPortal

\* getIssues and the clock reading of addIssue, or getIssues, findIndex and the
\* clock reading of a mutation that finds its issue; the clock reads t, the time
\* of the last reading or later
TabRead(tab, op, t) ==
    /\ tabs[tab].pc # "read"
    /\ t >= now
    /\ t <= MaxClock
    /\ TabCalls(Tabs) < MaxCalls
    /\ IF op.op = "addIssue" THEN Len(issues) < MaxIssues
                             ELSE FindIndex(issues, op.issueId) # 0
    /\ tabs' = [tabs EXCEPT ![tab] =
                    [pc |-> "read", calls |-> @.calls + 1, wrote |-> @.wrote,
                     op |-> op, read |-> issues, at |-> t, seen |-> Writes]]
    /\ now' = t
    /\ UNCHANGED <<issues, audit, submit, portal>>

\* setItem of the same mutation
TabWrite(tab) ==
    /\ tabs[tab].pc = "read"
    /\ issues' = Written(tabs[tab].read, issues, tabs[tab].op, tabs[tab].at)
    /\ tabs' = [tabs EXCEPT ![tab] = [@ EXCEPT !.pc = "done", !.wrote = Writes + 1]]
    /\ UNCHANGED <<now, audit, submit, portal>>

NextTabs ==
    \/ \E tab \in Tabs, op \in TabOps(issues), t \in {now, now + 1} : TabRead(tab, op, t)
    \/ \E tab \in Tabs : TabWrite(tab)

SpecTabs == InitTabs /\ [][NextTabs]_vars

----------------------------------------------------------------------------
(* aiCategorization.ts: the classifiers.  A text is the sequence of its     *)
(* characters; a confidence is the fraction num / den.                      *)

UpperCase == <<"A", "B", "C", "D", "E", "F", "G", "H", "I", "J", "K", "L",
              "M", "N", "O", "P", "Q", "R", "S", "T", "U", "V", "W", "X", "Y", "Z">>

LowerCase == <<"a", "b", "c", "d", "e", "f", "g", "h", "i", "j", "k", "l",
              "m", "n", "o", "p", "q", "r", "s", "t", "u", "v", "w", "x", "y", "z">>

\* the lower-case letter of each upper-case letter
ToLower ==
    [c \in {UpperCase[k] : k \in 1..Len(UpperCase)} |->
        LowerCase[CHOOSE k \in 1..Len(UpperCase) : UpperCase[k] = c]]

\* text.toLowerCase()
ToLowerCase(text) ==
    [i \in 1..Len(text) |->
        IF text[i] \in DOMAIN ToLower THEN ToLower[text[i]] ELSE text[i]]

\* text.includes(keyword): keyword occurs in text as a substring
Includes(text, keyword) ==
    \E i \in 0..(Len(text) - Len(keyword)) :
        SubSeq(text, i + 1, i + Len(keyword)) = keyword

categoryPatterns ==
    <<
      [category |-> "roads", priority |-> "high",
       keywords |-> <<
          <<"p", "o", "t", "h", "o", "l", "e">>,
          <<"r", "o", "a", "d">>,
          <<"p", "a", "v", "e", "m", "e", "n", "t">>,
          <<"s", "t", "r", "e", "e", "t">>,
          <<"c", "r", "a", "c", "k">>,
          <<"d", "a", "m", "a", "g", "e", "d", " ", "r", "o", "a", "d">>,
          <<"t", "r", "a", "f", "f", "i", "c">>,
          <<"i", "n", "t", "e", "r", "s", "e", "c", "t", "i", "o", "n">>,
          <<"b", "r", "i", "d", "g", "e">>,
          <<"h", "i", "g", "h", "w", "a", "y">>,
          <<"b", "u", "m", "p">>,
          <<"u", "n", "e", "v", "e", "n">>,
          <<"s", "u", "r", "f", "a", "c", "e">>
       >>],
      [category |-> "water", priority |-> "urgent",
       keywords |-> <<
          <<"w", "a", "t", "e", "r">>,
          <<"l", "e", "a", "k">>,
          <<"p", "i", "p", "e">>,
          <<"b", "u", "r", "s", "t">>,
          <<"t", "a", "p">>,
          <<"f", "a", "u", "c", "e", "t">>,
          <<"d", "r", "i", "p", "p", "i", "n", "g">>,
          <<"f", "l", "o", "o", "d">>,
          <<"s", "e", "w", "a", "g", "e">>,
          <<"d", "r", "a", "i", "n">>,
          <<"s", "e", "w", "e", "r">>,
          <<"s", "a", "n", "i", "t", "a", "t", "i", "o", "n">>,
          <<"p", "l", "u", "m", "b", "i", "n", "g">>,
          <<"o", "v", "e", "r", "f", "l", "o", "w">>
       >>],
      [category |-> "electricity", priority |-> "high",
       keywords |-> <<
          <<"e", "l", "e", "c", "t", "r", "i", "c", "i", "t", "y">>,
          <<"p", "o", "w", "e", "r">>,
          <<"l", "i", "g", "h", "t">>,
          <<"s", "t", "r", "e", "e", "t", "l", "i", "g", "h", "t">>,
          <<"l", "a", "m", "p">>,
          <<"b", "u", "l", "b">>,
          <<"o", "u", "t", "a", "g", "e">>,
          <<"e", "l", "e", "c", "t", "r", "i", "c", "a", "l">>,
          <<"c", "a", "b", "l", "e">>,
          <<"w", "i", "r", "e">>,
          <<"t", "r", "a", "n", "s", "f", "o", "r", "m", "e", "r">>,
          <<"b", "l", "a", "c", "k", "o", "u", "t">>,
          <<"d", "a", "r", "k">>
       >>],
      [category |-> "waste", priority |-> "medium",
       keywords |-> <<
          <<"g", "a", "r", "b", "a", "g", "e">>,
          <<"w", "a", "s", "t", "e">>,
          <<"t", "r", "a", "s", "h">>,
          <<"r", "u", "b", "b", "i", "s", "h">>,
          <<"l", "i", "t", "t", "e", "r">>,
          <<"d", "u", "m", "p">>,
          <<"c", "o", "l", "l", "e", "c", "t", "i", "o", "n">>,
          <<"b", "i", "n">>,
          <<"r", "e", "f", "u", "s", "e">>,
          <<"d", "i", "s", "p", "o", "s", "a", "l">>,
          <<"r", "e", "c", "y", "c", "l", "i", "n", "g">>,
          <<"d", "i", "r", "t">>,
          <<"c", "l", "e", "a", "n", "i", "n", "g">>
       >>],
      [category |-> "safety", priority |-> "urgent",
       keywords |-> <<
          <<"d", "a", "n", "g", "e", "r">>,
          <<"u", "n", "s", "a", "f", "e">>,
          <<"s", "e", "c", "u", "r", "i", "t", "y">>,
          <<"c", "r", "i", "m", "e">>,
          <<"v", "a", "n", "d", "a", "l", "i", "s", "m">>,
          <<"b", "r", "o", "k", "e", "n">>,
          <<"g", "l", "a", "s", "s">>,
          <<"h", "a", "z", "a", "r", "d">>,
          <<"r", "i", "s", "k">>,
          <<"t", "h", "r", "e", "a", "t">>,
          <<"e", "m", "e", "r", "g", "e", "n", "c", "y">>,
          <<"a", "c", "c", "i", "d", "e", "n", "t">>,
          <<"i", "n", "j", "u", "r", "y">>
       >>],
      [category |-> "parks", priority |-> "low",
       keywords |-> <<
          <<"p", "a", "r", "k">>,
          <<"p", "l", "a", "y", "g", "r", "o", "u", "n", "d">>,
          <<"g", "a", "r", "d", "e", "n">>,
          <<"g", "r", "a", "s", "s">>,
          <<"t", "r", "e", "e", "s">>,
          <<"r", "e", "c", "r", "e", "a", "t", "i", "o", "n">>,
          <<"s", "p", "o", "r", "t", "s", " ", "f", "i", "e", "l", "d">>,
          <<"b", "e", "n", "c", "h">>,
          <<"f", "e", "n", "c", "e">>
       >>],
      [category |-> "other", priority |-> "low",
       keywords |-> <<
          <<"o", "t", "h", "e", "r">>,
          <<"g", "e", "n", "e", "r", "a", "l">>,
          <<"m", "i", "s", "c", "e", "l", "l", "a", "n", "e", "o", "u", "s">>,
          <<"i", "s", "s", "u", "e">>,
          <<"p", "r", "o", "b", "l", "e", "m">>,
          <<"c", "o", "n", "c", "e", "r", "n">>
       >>]
    >>

\* categoryPatterns.map((p) => p.category)
validCategories == {categoryPatterns[i].category : i \in 1..Len(categoryPatterns)}

maxPossibleScore == 5

\* the keywords of the pattern that text includes, in the order of the list; the
\* score of the pattern is their number
Matched(text, pattern) ==
    SelectSeq(pattern.keywords, LAMBDA keyword : Includes(text, ToLowerCase(keyword)))

\* (altered) a later category with the same score replaces the best one
RECURSIVE BestMatchLastWins(_, _, _)
BestMatchLastWins(text, n, best) ==
    IF n > Len(categoryPatterns) THEN best
    ELSE LET keywords == Matched(text, categoryPatterns[n])
         IN  BestMatchLastWins(text, n + 1,
                IF Len(keywords) >= best.score
                THEN [category |-> categoryPatterns[n].category,
                      score |-> Len(keywords), keywords |-> keywords]
                ELSE best)

\* Object.keys(scores).forEach from the n-th category on: a category replaces the
\* best one when its score is greater
RECURSIVE BestMatch(_, _, _)
BestMatch(text, n, best) ==
    IF n > Len(categoryPatterns) THEN best
    ELSE LET keywords == Matched(text, categoryPatterns[n])
         IN  BestMatch(text, n + 1,
                IF Len(keywords) > best.score
                THEN [category |-> categoryPatterns[n].category,
                      score |-> Len(keywords), keywords |-> keywords]
                ELSE best)

\* Math.min(bestScore / maxPossibleScore, 1)
Confidence(bestScore) ==
    IF bestScore < maxPossibleScore
    THEN [num |-> bestScore, den |-> maxPossibleScore]
    ELSE [num |-> 1, den |-> 1]

categorizeIssueKeywordBased(title, description) ==
    LET text == ToLowerCase(title \o <<" ">> \o description)
        best == BestMatch(text, 1, [category |-> "other", score |-> 0, keywords |-> << >>])
    IN  [category |-> best.category,
         confidence |-> Confidence(best.score),
         keywords |-> best.keywords]

\* What the fetch of categorizeIssue may end in: response.ok false, no generated
\* text, text without a JSON object, text JSON.parse throws on, a thrown network
\* error, or a parsed object
GatewayResults ==
    { [category |-> "water", confidence |-> [num |-> 17, den |-> 20],
       keywords |-> << <<"p", "i", "p", "e">> >>],
      [category |-> "roads"],
      [category |-> "infrastructure", confidence |-> [num |-> 9, den |-> 10]],
      [confidence |-> [num |-> 9, den |-> 10]] }

GatewayOutcomes ==
    { [kind |-> k] : k \in {"httpError", "noText", "noJson", "badJson", "networkError"} }
    \cup { [kind |-> "json", result |-> r] : r \in GatewayResults }

\* result.confidence || 0.8 and result.keywords || []
Suggestion(result) ==
    [category |-> result.category,
     confidence |-> IF Has(result, "confidence") /\ result.confidence.num # 0
                    THEN result.confidence ELSE [num |-> 4, den |-> 5],
     keywords |-> IF Has(result, "keywords") THEN result.keywords ELSE << >>]

\* (altered) the parsed category is not checked against the categories
categorizeIssueTrusting(title, description, outcome) ==
    IF outcome.kind = "json" /\ Has(outcome.result, "category")
    THEN Suggestion(outcome.result)
    ELSE categorizeIssueKeywordBased(title, description)

categorizeIssue(title, description, outcome) ==
    IF /\ outcome.kind = "json"
       /\ Has(outcome.result, "category")
       /\ outcome.result.category \in validCategories
    THEN Suggestion(outcome.result)
    ELSE categorizeIssueKeywordBased(title, description)

\* What the image analysis may end in: the same failures, or the object parsed from
\* the generated text
Analyses ==
    { [title |-> <<"B", "u", "r", "s", "t", " ", "w", "a", "t", "e", "r", " ", "p", "i", "p", "e">>, description |-> <<"W", "a", "t", "e", "r", " ", "o", "n", " ", "r", "o", "a", "d">>,
       category |-> "water", priority |-> "urgent", confidence |-> [num |-> 9, den |-> 10]],
      [title |-> <<"B", "r", "o", "k", "e", "n", " ", "s", "i", "g", "n">>, description |-> <<"S", "i", "g", "n", " ", "i", "s", " ", "d", "o", "w", "n">>,
       category |-> "infrastructure", priority |-> "low",
       confidence |-> [num |-> 7, den |-> 10]],
      [title |-> << >>, description |-> <<"U", "n", "c", "l", "e", "a", "r", " ", "i", "m", "a", "g", "e">>,
       category |-> "other", priority |-> "low", confidence |-> [num |-> 1, den |-> 10]],
      [title |-> <<"D", "a", "r", "k", " ", "s", "t", "r", "e", "e", "t">>, description |-> <<"N", "o", " ", "l", "i", "g", "h", "t">>,
       priority |-> "high", confidence |-> [num |-> 1, den |-> 2]] }

ImageOutcomes ==
    { [kind |-> k] : k \in {"httpError", "noText", "noJson", "badJson", "networkError"} }
    \cup { [kind |-> "json", analysis |-> a] : a \in Analyses }

\* (altered) the route does not look at the title
RouteAcceptsUntitled(outcome) ==
    /\ outcome.kind = "json"
    /\ Has(outcome.analysis, "description") /\ outcome.analysis.description # << >>
    /\ Has(outcome.analysis, "category") /\ outcome.analysis.category # ""

\* the analyze-image route answers with the analysis: the text held a JSON object
\* with a title, a description and a category; analyzeImage throws otherwise
RouteAccepts(outcome) ==
    /\ outcome.kind = "json"
    /\ Has(outcome.analysis, "title") /\ outcome.analysis.title # << >>
    /\ Has(outcome.analysis, "description") /\ outcome.analysis.description # << >>
    /\ Has(outcome.analysis, "category") /\ outcome.analysis.category # ""

----------------------------------------------------------------------------
(* Submitting a report: the form of the resident dashboard, whose handler     *)
(* awaits categorizeIssue and then calls addIssue, and the photo of the       *)
(* create-report page, whose handler awaits analyzeImage and then calls       *)
(* addIssue, or gives up when analyzeImage throws.                            *)

\* What the report form may hold when the resident presses submit
Forms ==
    { [title |-> <<"B", "u", "r", "s", "t", " ", "p", "i", "p", "e">>,
       description |-> <<"W", "a", "t", "e", "r", " ", "f", "l", "o", "o", "d", "i", "n", "g", " ", "s", "t", "r", "e", "e", "t">>,
       category |-> "water", location |-> "Main Rd", priority |-> "medium"],
      [title |-> <<"P", "o", "t", "h", "o", "l", "e">>,
       description |-> <<"L", "e", "a", "k">>,
       category |-> "roads", location |-> "Main Rd", priority |-> "high"],
      [title |-> <<"H", "e", "l", "l", "o">>,
       description |-> <<"N", "o", "t", "h", "i", "n", "g">>,
       category |-> "other", location |-> "Main Rd", priority |-> "low"],
      [title |-> <<"W", "a", "t", "e", "r", " ", "l", "e", "a", "k">>,
       description |-> <<"P", "i", "p", "e", " ", "b", "u", "r", "s", "t", " ", "t", "a", "p", " ", "f", "l", "o", "o", "d">>,
       category |-> "water", location |-> "Main Rd", priority |-> "urgent"],
      [title |-> <<>>,
       description |-> <<"S", "o", "m", "e", "t", "h", "i", "n", "g">>,
       category |-> "parks", location |-> "Main Rd", priority |-> "low"] }

\* the inputs of the form marked `required` are filled in
FormValid(form) ==
    form.title # << >> /\ form.description # << >> /\ form.location # ""

\* who submits a photo: the resident logged in, or nobody (a guest)
Guest == Absent

Submitters == {CHOOSE u \in Users : u.role = "resident"} \cup {Guest}

\* the argument of addIssue in handleSubmitIssue
FormInput(user, form, aiResult) ==
    [userId |-> user.id, userName |-> FullName(user),
     title |-> form.title, description |-> form.description,
     category |-> form.category, location |-> form.location,
     aiCategory |-> aiResult.category, aiConfidence |-> aiResult.confidence,
     status |-> "pending", priority |-> form.priority]

\* the argument of addIssue in analyzeAndSubmit, at clock reading t
ImageInput(user, analysis, t) ==
    [userId |-> IF Has(user, "id") THEN user.id ELSE "guest-" \o ToString(t),
     userName |-> IF Has(user, "id") THEN FullName(user) ELSE <<"Anonymous Resident">>,
     title |-> analysis.title, description |-> analysis.description,
     category |-> analysis.category, location |-> "Location not specified",
     photoData |-> "image",
     aiCategory |-> analysis.category, aiConfidence |-> analysis.confidence,
     status |-> "pending", priority |-> analysis.priority, aiAnalysis |-> Absent]

InitSubmit ==
    /\ issues = << >>
    /\ now = 1
    /\ audit = << >>
    /\ tabs = << >>
    /\ submit = NoSubmission
    /\ NoPortal

\* handleSubmitIssue up to its await of categorizeIssue
SubmitForm(user, form) ==
    /\ submit.pc \in {"idle", "done"}
    /\ Len(issues) < MaxReports
    /\ FormValid(form)
    /\ submit' = [pc |-> "categorizing", path |-> "form", user |-> user, form |-> form]
    /\ UNCHANGED <<issues, now, audit, tabs, portal>>

\* categorizeIssue returns and handleSubmitIssue calls addIssue
CategorizeReturns(outcome) ==
    /\ submit.pc = "categorizing"
    /\ LET aiResult == categorizeIssue(submit.form.title, submit.form.description, outcome)
           input == FormInput(submit.user, submit.form, aiResult)
       IN  /\ issues' = AddIssueResult(issues, input, now)
           /\ audit' = Append(audit, NewAudit(input, now))
           /\ submit' = [pc |-> "done", path |-> "form", form |-> submit.form,
                         outcome |-> outcome, aiResult |-> aiResult, stored |-> TRUE,
                         before |-> issues]
    /\ UNCHANGED <<now, tabs, portal>>

\* analyzeAndSubmit up to its await of analyzeImage
SubmitImage(user) ==
    /\ submit.pc \in {"idle", "done"}
    /\ Len(issues) < MaxReports
    /\ submit' = [pc |-> "analyzing", path |-> "image", user |-> user]
    /\ UNCHANGED <<issues, now, audit, tabs, portal>>

\* analyzeImage returns the analysis and analyzeAndSubmit calls addIssue, or
\* analyzeImage throws and the catch block reports the failure
AnalyzeReturns(outcome) ==
    /\ submit.pc = "analyzing"
    /\ IF RouteAccepts(outcome)
       THEN LET input == ImageInput(submit.user, outcome.analysis, now)
            IN  /\ issues' = AddIssueResult(issues, input, now)
                /\ audit' = Append(audit, NewAudit(input, now))
                /\ submit' = [pc |-> "done", path |-> "image", outcome |-> outcome,
                              stored |-> TRUE, before |-> issues]
       ELSE /\ submit' = [pc |-> "done", path |-> "image", outcome |-> outcome,
                          stored |-> FALSE, before |-> issues]
            /\ UNCHANGED <<issues, audit>>
    /\ UNCHANGED <<now, tabs, portal>>

NextSubmit ==
    \/ Tick
    \/ \E user \in Submitters \ {Guest}, form \in Forms : SubmitForm(user, form)
    \/ \E outcome \in GatewayOutcomes : CategorizeReturns(outcome)
    \/ \E user \in Submitters : SubmitImage(user)
    \/ \E outcome \in ImageOutcomes : AnalyzeReturns(outcome)

SpecSubmit == InitSubmit /\ [][NextSubmit]_vars

----------------------------------------------------------------------------
(* The user directory and its queries (storageUtils.getUsers, addUser,      *)
(* getEmployeesByDepartment, getAllEmployees)                               *)

MaxUsers == 7       \* users the directory may hold

\* the directories made of the first n users of the pool, in the pool's order
RECURSIVE Directories(_)
Directories(n) ==
    IF n = 0 THEN { << >> }
    ELSE LET shorter == Directories(n - 1)
         IN  shorter \cup { Append(d, UserPool[n]) : d \in shorter }

\* the departments a caller asks for; nobody works in parks
QueriedDepartments == Departments \cup {"parks"}

\* (altered) the role of the user is not looked at
getEmployeesByDepartmentAnyRole(directory, department) ==
    SelectSeq(directory, LAMBDA user : Has(user, "department") /\ user.department = department)

\* users.filter(user => user.role === "employee" && user.department === department)
getEmployeesByDepartment(directory, department) ==
    SelectSeq(directory, LAMBDA user :
        /\ Has(user, "role") /\ user.role = "employee"
        /\ Has(user, "department") /\ user.department = department)

\* users.filter(user => user.role === "employee")
getAllEmployees(directory) ==
    SelectSeq(directory, LAMBDA user : Has(user, "role") /\ user.role = "employee")

\* what the register page passes to addUser, with the id and the role-less record
\* addUser makes of it at clock reading t
AddUserRecord(t) ==
    [id |-> ToString(t), firstName |-> "Ann", lastName |-> "Other"]

InitDirectory ==
    /\ issues = << >>
    /\ now = 1
    /\ audit = << >>
    /\ tabs = << >>
    /\ submit = NoSubmission
    /\ users \in Directories(Len(UserPool))
    /\ currentUser = Absent
    /\ page = [path |-> "/landing", state |-> "rendered"]
    /\ answer = Absent

\* storageUtils.addUser, called by the register page
AddUser ==
    /\ Len(users) < MaxUsers
    /\ users' = Append(users, AddUserRecord(now))
    /\ UNCHANGED <<issues, now, audit, tabs, submit, currentUser, page, answer>>

\* a call of storageUtils.getEmployeesByDepartment(department)
QueryEmployeesByDepartment(department) ==
    /\ answer' = [query |-> "getEmployeesByDepartment", department |-> department,
                  directory |-> users,
                  value |-> getEmployeesByDepartment(users, department)]
    /\ UNCHANGED <<issues, now, audit, tabs, submit, users, currentUser, page>>

\* a call of storageUtils.getAllEmployees()
QueryAllEmployees ==
    /\ answer' = [query |-> "getAllEmployees", directory |-> users,
                  value |-> getAllEmployees(users)]
    /\ UNCHANGED <<issues, now, audit, tabs, submit, users, currentUser, page>>

NextDirectory ==
    \/ AddUser
    \/ \E department \in QueriedDepartments : QueryEmployeesByDepartment(department)
    \/ QueryAllEmployees

SpecDirectory == InitDirectory /\ [][NextDirectory]_vars

----------------------------------------------------------------------------
(* analyticsUtils (utils/analytics.ts) and storageUtils.getIssuesStats: the  *)
(* figures the dashboards compute from the stored issues.  A confidence is   *)
(* the fraction [num, den]; a figure the code rounds is an integer.          *)

MaxSample == 3      \* issues in a collection the figures are computed from

\* readings of the clock in a day (1000 * 60 * 60 * 24 milliseconds)
DayLength == 2

\* A stored issue as the operations of the store leave it: reported at `created`
\* by `userId` with the classifier's confidence (or none), and, unless it is still
\* pending, moved to `status` by staff at `updated`
Sample(category, priority, userId, confidence, created, status, updated) ==
    LET input == [userId |-> userId, userName |-> ResidentName, title |-> "Burst pipe",
                  description |-> "Water flooding street", category |-> category,
                  location |-> "Main Rd", status |-> "pending", priority |-> priority]
                 @@ confidence
        record == AddIssueRecord(input, created)
        call == [updates |-> [status |-> status, staffNotes |-> "seen"],
                 changedBy |-> StaffName, note |-> <<"Issue updated by staff">>]
    IN  IF status = "pending" THEN record ELSE UpdateIssueRecord(record, call, updated)

SampleIssues ==
    { Sample("water", "medium", "R1", [aiCategory |-> "water", aiConfidence |-> [num |-> 4, den |-> 5]],
             1, "pending", 1),
      Sample("water", "high", "R1", Absent, 1, "resolved", 2),
      Sample("roads", "medium", "guest-1", [aiCategory |-> "other", aiConfidence |-> [num |-> 0, den |-> 5]],
             1, "resolved", 4),
      Sample("roads", "urgent", "R1", [aiCategory |-> "roads", aiConfidence |-> [num |-> 17, den |-> 20]],
             2, "in-progress", 3),
      Sample("parks", "low", "guest-1", Absent, 2, "rejected", 2) }

\* the collections of up to n sample issues
RECURSIVE Collections(_)
Collections(n) ==
    IF n = 0 THEN { << >> }
    ELSE LET shorter == Collections(n - 1)
         IN  shorter \cup { Append(c, s) : c \in shorter, s \in SampleIssues }

\* Math.round(n / d) for n >= 0 and d > 0: halves go up
Round(n, d) == (2 * n + d) \div (2 * d)

\* Math.ceil(n / d) for n >= 0 and d > 0
Ceil(n, d) == (n + d - 1) \div d

Abs(n) == IF n < 0 THEN 0 - n ELSE n

\* list.filter(i => i[key] === value).length
CountWhere(list, key, value) ==
    Cardinality({ i \in 1..Len(list) : list[i][key] = value })

\* the keys of `counts` in the order Object.entries gives them: each value of the
\* field, where it first occurs in the list
RECURSIVE KeysOf(_, _)
KeysOf(list, key) ==
    IF list = << >> THEN << >>
    ELSE LET rest == KeysOf(SubSeq(list, 1, Len(list) - 1), key)
             k == list[Len(list)][key]
         IN  IF \E i \in 1..Len(rest) : rest[i] = k THEN rest ELSE Append(rest, k)

\* Array.prototype.sort with a comparator that orders by rank: a stable sort, so
\* entries of equal rank keep their order
SortByRank(entries, rank) ==
    LET place(i) == 1 + Cardinality({ j \in 1..Len(entries) :
                                        \/ rank[j] < rank[i]
                                        \/ rank[j] = rank[i] /\ j < i })
    IN  [p \in 1..Len(entries) |-> entries[CHOOSE i \in 1..Len(entries) : place(i) = p]]

\* (altered) the percentage is cut, not rounded
getCategoryBreakdownFloor(list) ==
    LET keys == KeysOf(list, "category")
        entries == [i \in 1..Len(keys) |->
                      [category |-> keys[i],
                       count |-> CountWhere(list, "category", keys[i]),
                       percentage |-> (CountWhere(list, "category", keys[i]) * 100)
                                         \div Len(list)]]
    IN  IF Len(list) = 0 THEN << >>
        ELSE SortByRank(entries, [i \in 1..Len(keys) |-> 0 - entries[i].count])

getCategoryBreakdown(list) ==
    LET keys == KeysOf(list, "category")
        entries == [i \in 1..Len(keys) |->
                      [category |-> keys[i],
                       count |-> CountWhere(list, "category", keys[i]),
                       percentage |-> Round(CountWhere(list, "category", keys[i]) * 100,
                                            Len(list))]]
    IN  IF Len(list) = 0 THEN << >>
        ELSE SortByRank(entries, [i \in 1..Len(keys) |-> 0 - entries[i].count])

getStatusBreakdown(list) ==
    LET keys == KeysOf(list, "status")
        entries == [i \in 1..Len(keys) |->
                      [status |-> keys[i],
                       count |-> CountWhere(list, "status", keys[i]),
                       percentage |-> Round(CountWhere(list, "status", keys[i]) * 100,
                                            Len(list))]]
    IN  IF Len(list) = 0 THEN << >>
        ELSE SortByRank(entries, [i \in 1..Len(keys) |-> 0 - entries[i].count])

\* const order = { urgent: 0, high: 1, medium: 2, low: 3 }
PriorityOrder == [urgent |-> 0, high |-> 1, medium |-> 2, low |-> 3]

getPriorityBreakdown(list) ==
    LET keys == KeysOf(list, "priority")
        entries == [i \in 1..Len(keys) |->
                      [priority |-> keys[i],
                       count |-> CountWhere(list, "priority", keys[i]),
                       percentage |-> Round(CountWhere(list, "priority", keys[i]) * 100,
                                            Len(list))]]
    IN  IF Len(list) = 0 THEN << >>
        ELSE SortByRank(entries, [i \in 1..Len(keys) |-> PriorityOrder[keys[i]]])

\* the days from creation to the last update of a resolved issue; null (absent)
\* for any other
calculateResolutionTime(issue) ==
    IF issue.status # "resolved" THEN Absent
    ELSE [days |-> Ceil(Abs(issue.updatedAt - issue.createdAt), DayLength)]

\* array.reduce((a, b) => a + b, 0) over numbers
RECURSIVE Sum(_)
Sum(numbers) ==
    IF numbers = << >> THEN 0
    ELSE numbers[Len(numbers)] + Sum(SubSeq(numbers, 1, Len(numbers) - 1))

\* the sum of fractions, as a fraction
RECURSIVE SumFractions(_)
SumFractions(fractions) ==
    IF fractions = << >> THEN [num |-> 0, den |-> 1]
    ELSE LET rest == SumFractions(SubSeq(fractions, 1, Len(fractions) - 1))
             last == fractions[Len(fractions)]
         IN  [num |-> rest.num * last.den + last.num * rest.den,
              den |-> rest.den * last.den]

\* a number-or-undefined field is truthy: it is set and is not 0
TruthyNumber(o, k) == Has(o, k) /\ o[k].num # 0

\* Math.round((sum / withConfidence.length) * 100) over the issues whose
\* aiConfidence is truthy
getAverageAIConfidence(list) ==
    LET withConfidence == SelectSeq(list, LAMBDA i : TruthyNumber(i, "aiConfidence"))
        sum == SumFractions([n \in 1..Len(withConfidence) |-> withConfidence[n].aiConfidence])
    IN  IF Len(withConfidence) = 0 THEN 0
        ELSE Round(sum.num * 100, sum.den * Len(withConfidence))

\* (altered) the mean of the resolution times is cut, not rounded
AverageResolutionTimeFloor(list) ==
    LET resolvedIssues == SelectSeq(list, LAMBDA i : i.status = "resolved")
        resolutionTimes == [n \in 1..Len(resolvedIssues) |->
                               calculateResolutionTime(resolvedIssues[n]).days]
    IN  IF Len(resolutionTimes) > 0
        THEN Sum(resolutionTimes) \div Len(resolutionTimes)
        ELSE 0

\* avgResolutionTime of getAnalyticsSummary
AverageResolutionTime(list) ==
    LET resolvedIssues == SelectSeq(list, LAMBDA i : i.status = "resolved")
        resolutionTimes == [n \in 1..Len(resolvedIssues) |->
                               calculateResolutionTime(resolvedIssues[n]).days]
    IN  IF Len(resolutionTimes) > 0
        THEN Round(Sum(resolutionTimes), Len(resolutionTimes))
        ELSE 0

\* getAnalyticsSummary(userId) over the stored list; monthlyTrend and
\* topIssueTypes, which count by calendar month and by aiAnalysis.issueType, are
\* left out
getAnalyticsSummary(stored, userId) ==
    LET list == IF userId # "" THEN SelectSeq(stored, LAMBDA i : i.userId = userId)
                ELSE stored
    IN  [totalReports |-> Len(list),
         pendingReports |-> CountWhere(list, "status", "pending"),
         inProgressReports |-> CountWhere(list, "status", "in-progress"),
         resolvedReports |-> CountWhere(list, "status", "resolved"),
         rejectedReports |-> CountWhere(list, "status", "rejected"),
         avgResolutionTime |-> AverageResolutionTime(list),
         categoryBreakdown |-> getCategoryBreakdown(list),
         priorityBreakdown |-> getPriorityBreakdown(list),
         statusBreakdown |-> getStatusBreakdown(list),
         aiConfidenceAverage |-> getAverageAIConfidence(list)]

\* (altered) total counts the issues that are not rejected
getIssuesStatsOpen(stored) ==
    [total |-> Len(stored) - CountWhere(stored, "status", "rejected"),
     pending |-> CountWhere(stored, "status", "pending"),
     inProgress |-> CountWhere(stored, "status", "in-progress"),
     resolved |-> CountWhere(stored, "status", "resolved"),
     rejected |-> CountWhere(stored, "status", "rejected"),
     urgent |-> CountWhere(stored, "priority", "urgent"),
     high |-> CountWhere(stored, "priority", "high")]

getIssuesStats(stored) ==
    [total |-> Len(stored),
     pending |-> CountWhere(stored, "status", "pending"),
     inProgress |-> CountWhere(stored, "status", "in-progress"),
     resolved |-> CountWhere(stored, "status", "resolved"),
     rejected |-> CountWhere(stored, "status", "rejected"),
     urgent |-> CountWhere(stored, "priority", "urgent"),
     high |-> CountWhere(stored, "priority", "high")]

\* the users a summary is asked for: everybody (no userId) or one resident
SummaryUsers == {"", "R1"}

InitAnalytics ==
    /\ issues \in Collections(MaxSample)
    /\ now = 1
    /\ audit = << >>
    /\ tabs = << >>
    /\ submit = NoSubmission
    /\ NoPortal

\* what a query made with `args` leaves behind when it returns `value`
Answer(query, args, value) ==
    [query |-> query, issues |-> issues, value |-> value] @@ args

GetCategoryBreakdown ==
    /\ answer' = Answer("getCategoryBreakdown", Absent, getCategoryBreakdown(issues))
    /\ UNCHANGED <<issues, now, audit, tabs, submit, users, currentUser, page>>

GetAverageAIConfidence ==
    /\ answer' = Answer("getAverageAIConfidence", Absent, getAverageAIConfidence(issues))
    /\ UNCHANGED <<issues, now, audit, tabs, submit, users, currentUser, page>>

GetAnalyticsSummary(userId) ==
    /\ answer' = Answer("getAnalyticsSummary", [userId |-> userId],
                        getAnalyticsSummary(issues, userId))
    /\ UNCHANGED <<issues, now, audit, tabs, submit, users, currentUser, page>>

GetIssuesStats ==
    /\ answer' = Answer("getIssuesStats", Absent, getIssuesStats(issues))
    /\ UNCHANGED <<issues, now, audit, tabs, submit, users, currentUser, page>>

NextAnalytics ==
    \/ GetCategoryBreakdown
    \/ GetAverageAIConfidence
    \/ \E userId \in SummaryUsers : GetAnalyticsSummary(userId)
    \/ GetIssuesStats

SpecAnalytics == InitAnalytics /\ [][NextAnalytics]_vars

----------------------------------------------------------------------------
(* The pages of the portal in one browser tab: the login page, the three     *)
(* dashboards with their role guards, and the modals of the staff and the    *)
(* employee dashboard.  A page is "mounting" from router.push (or the user   *)
(* opening it) until its useEffect has run, which either redirects or lets   *)
(* it render.  The session (localStorage) is shared with the other tabs of   *)
(* the browser, where a user may log in or out meanwhile.                    *)

Paths == {"/landing", "/login", "/resident-dashboard", "/staff-dashboard",
          "/employee-dashboard"}

\* router.push(path)
Push(path) == [path |-> path, state |-> "mounting"]

Rendered(path) == page.path = path /\ page.state = "rendered"

\* currentUser.role, undefined for a user registered without one
RoleOf(user) == IF Has(user, "role") THEN user.role ELSE ""

\* issues.sort((a, b) => new Date(b.createdAt) - new Date(a.createdAt))
SortNewestFirst(list) ==
    SortByRank(list, [i \in 1..Len(list) |-> 0 - list[i].createdAt])

\* storageUtils.getIssuesAssignedToEmployee(employeeId)
getIssuesAssignedToEmployee(stored, employeeId) ==
    SelectSeq(stored, LAMBDA issue :
        Has(issue, "assignedToEmployee") /\ issue.assignedToEmployee = employeeId)

\* storageUtils.getIssuesByUser(userId)
getIssuesByUser(stored, userId) ==
    SelectSeq(stored, LAMBDA issue : issue.userId = userId)

\* o[k] || ""
OrEmpty(o, k) == IF Truthy(o, k) THEN o[k] ELSE ""

\* the staff dashboard once its guard has passed, with the list `stored` loaded
StaffPage(user, stored) ==
    [path |-> "/staff-dashboard", state |-> "rendered", user |-> user,
     allIssues |-> SortNewestFirst(stored), showModal |-> FALSE]

\* the employee dashboard once its guard has passed
EmployeePage(user, stored) ==
    [path |-> "/employee-dashboard", state |-> "rendered", user |-> user,
     assignedIssues |-> SortNewestFirst(getIssuesAssignedToEmployee(stored, user.id)),
     showModal |-> FALSE]

\* the resident dashboard once its guard has passed
ResidentPage(user, stored) ==
    [path |-> "/resident-dashboard", state |-> "rendered", user |-> user,
     myIssues |-> SortNewestFirst(getIssuesByUser(stored, user.id))]

\* where LoginPage.handleSubmit sends the user who logged in
DashboardPath(user) ==
    IF RoleOf(user) = "staff" THEN "/staff-dashboard" ELSE "/resident-dashboard"

\* The role guards: the path the useEffect of a dashboard pushes for the session
\* it finds, "" when it lets the page render
ResidentGuard(user) ==
    IF user = Absent THEN "/login"
    ELSE IF RoleOf(user) # "resident" THEN "/staff-dashboard"
    ELSE ""

StaffGuard(user) ==
    IF user = Absent THEN "/login"
    ELSE IF RoleOf(user) # "staff" THEN "/resident-dashboard"
    ELSE ""

EmployeeGuard(user) ==
    IF user = Absent THEN "/login"
    ELSE IF RoleOf(user) # "employee"
         THEN (IF RoleOf(user) = "staff" THEN "/staff-dashboard" ELSE "/resident-dashboard")
    ELSE ""

\* the staff modal as handleViewIssue fills it for the issue
StaffModalData(issue) ==
    [status |-> issue.status,
     staffNotes |-> OrEmpty(issue, "staffNotes"),
     department |-> IF Truthy(issue, "department") THEN issue.department
                    ELSE OrEmpty(issue, "category"),
     assignedToEmployee |-> OrEmpty(issue, "assignedToEmployee")]

\* (altered) the employee selection survives a change of department
DepartmentChangedKeepsEmployee(modalData, department) ==
    Spread(modalData, [department |-> department])

\* the staff modal after handleDepartmentChange(department)
DepartmentChanged(modalData, department) ==
    Spread(modalData, [department |-> department, assignedToEmployee |-> ""])

\* the list the employee select offers for the department
AvailableEmployees(directory, department) ==
    IF department # "" THEN getEmployeesByDepartment(directory, department) ELSE << >>

\* `updates` of handleUpdateIssue: status and notes of the modal, and resolvedAt
\* when the modal resolves an issue that was not resolved
ModalUpdates(modalData, selectedIssue, t) ==
    [status |-> modalData.status, staffNotes |-> modalData.staffNotes]
    @@ (IF modalData.status = "resolved" /\ selectedIssue.status # "resolved"
        THEN [resolvedAt |-> t] ELSE Absent)

\* the store the portal starts from, at reading 2 of the clock: one report made
\* at reading 1, not assigned yet or assigned to the employee of the water
\* department by a save of the staff modal at reading 1
PortalStores ==
    LET created == { AddIssueResult(<< >>, input, 1) : input \in NewIssueInputs }
        saved(list) ==
            UpdateIssueResult(
                AssignIssueResult(list, list[1].id, "water", "E1", <<"Eve", " ", "Water">>,
                                  StaffName, 1),
                list[1].id,
                [updates |-> [status |-> "pending", staffNotes |-> ""],
                 changedBy |-> StaffName, note |-> <<"Issue updated by staff">>],
                1)
    IN  created \cup { saved(list) : list \in created }

InitPortal ==
    /\ issues \in PortalStores
    /\ now = 2
    /\ audit = [i \in 1..Len(issues) |-> NewAudit(issues[i], 1)]
    /\ tabs = << >>
    /\ submit = NoSubmission
    /\ NoPortal

\* what a save of a modal leaves in the audit of the issue it found: the session
\* at that moment, the department and the employee selected in the modal, the
\* assignment it made (if any) and the update
Saved(index, list, dashboard, selection, assigned, call) ==
    [audit EXCEPT ![index] =
        [@ EXCEPT !.calls = @ + (IF assigned = Absent THEN 1 ELSE 2),
                  !.unchanged = @ + (IF call.updates.status = issues[index].status
                                     THEN 1 ELSE 0),
                  !.everResolved = @ \/ list[index].status = "resolved",
                  !.last = [op |-> "handleUpdateIssue", dashboard |-> dashboard,
                            session |-> currentUser, selection |-> selection,
                            assigned |-> assigned,
                            call |-> call, at |-> now, before |-> issues[index]]]]

\* the user opens a page by its address or a link
Open(path) ==
    /\ page' = Push(path)
    /\ UNCHANGED <<issues, now, audit, tabs, submit, users, currentUser, answer>>

\* LoginPage.handleSubmit with the credentials of a user of the directory
Login(user) ==
    /\ Rendered("/login")
    /\ currentUser' = user
    /\ page' = Push(DashboardPath(user))
    /\ UNCHANGED <<issues, now, audit, tabs, submit, users, answer>>

\* handleLogout of a dashboard, confirmed
Logout ==
    /\ page.state = "rendered"
    /\ Has(page, "user")
    /\ currentUser' = Absent
    /\ page' = Push("/landing")
    /\ UNCHANGED <<issues, now, audit, tabs, submit, users, answer>>

\* the useEffect of the page that is mounting
Mount ==
    /\ page.state = "mounting"
    /\ LET target == CASE page.path = "/resident-dashboard" -> ResidentGuard(currentUser)
                       [] page.path = "/staff-dashboard" -> StaffGuard(currentUser)
                       [] page.path = "/employee-dashboard" -> EmployeeGuard(currentUser)
                       [] OTHER -> ""
       IN  page' = IF target # "" THEN Push(target)
                   ELSE CASE page.path = "/resident-dashboard" -> ResidentPage(currentUser, issues)
                          [] page.path = "/staff-dashboard" -> StaffPage(currentUser, issues)
                          [] page.path = "/employee-dashboard" -> EmployeePage(currentUser, issues)
                          [] OTHER -> [path |-> page.path, state |-> "rendered"]
    /\ UNCHANGED <<issues, now, audit, tabs, submit, users, currentUser, answer>>

\* StaffDashboard.handleViewIssue(issue)
StaffHandleViewIssue(issue) ==
    /\ Rendered("/staff-dashboard")
    /\ ~page.showModal
    /\ \E i \in 1..Len(page.allIssues) : page.allIssues[i] = issue
    /\ page' = Spread(page,
                  [selectedIssue |-> issue,
                   modalData |-> StaffModalData(issue),
                   employees |-> getAllEmployees(users),
                   availableEmployees |->
                       AvailableEmployees(users, StaffModalData(issue).department),
                   showModal |-> TRUE])
    /\ UNCHANGED <<issues, now, audit, tabs, submit, users, currentUser, answer>>

\* StaffDashboard.handleDepartmentChange(department)
HandleDepartmentChange(department) ==
    /\ Rendered("/staff-dashboard")
    /\ page.showModal
    /\ page' = Spread(page,
                  [modalData |-> DepartmentChanged(page.modalData, department),
                   availableEmployees |-> AvailableEmployees(users, department)])
    /\ UNCHANGED <<issues, now, audit, tabs, submit, users, currentUser, answer>>

\* onChange of the employee select: enabled with a department that has employees,
\* it offers no employee and the available ones
SelectEmployee(employeeId) ==
    /\ Rendered("/staff-dashboard")
    /\ page.showModal
    /\ page.modalData.department # ""
    /\ page.availableEmployees # << >>
    /\ \/ employeeId = ""
       \/ \E i \in 1..Len(page.availableEmployees) :
             page.availableEmployees[i].id = employeeId
    /\ page' = Spread(page,
                  [modalData |-> Spread(page.modalData, [assignedToEmployee |-> employeeId])])
    /\ UNCHANGED <<issues, now, audit, tabs, submit, users, currentUser, answer>>

\* onChange of the status select or of the notes of a modal
ChangeModal(change) ==
    /\ page.state = "rendered"
    /\ Has(page, "showModal") /\ page.showModal
    /\ Has(change, "status") =>
          (page.path = "/employee-dashboard" => change.status # "rejected")
    /\ page' = Spread(page, [modalData |-> Spread(page.modalData, change)])
    /\ UNCHANGED <<issues, now, audit, tabs, submit, users, currentUser, answer>>

\* The state of a modal that React keeps while the modal is closed: every field
\* of it is overwritten by the next handleViewIssue, so a closed modal holds none
ModalState == {"selectedIssue", "modalData", "employees", "availableEmployees"}

\* the close button of a modal
CloseModal ==
    /\ page.state = "rendered"
    /\ Has(page, "showModal") /\ page.showModal
    /\ page' = Spread(Without(page, ModalState), [showModal |-> FALSE])
    /\ UNCHANGED <<issues, now, audit, tabs, submit, users, currentUser, answer>>

\* StaffDashboard.handleUpdateIssue: assignIssue when a department and an employee
\* are selected, then updateIssue, then the list is loaded again
StaffHandleUpdateIssue ==
    /\ Rendered("/staff-dashboard")
    /\ page.showModal
    /\ MayCall
    /\ LET selected == page.selectedIssue
           modal == page.modalData
           found == SelectSeq(page.employees, LAMBDA emp : emp.id = modal.assignedToEmployee)
           assigned == IF ModalAssigns(modal) /\ found # << >>
                       THEN [department |-> modal.department, employee |-> found[1]]
                       ELSE Absent
           staffName == FullName(page.user)
           afterAssign ==
               IF assigned = Absent THEN issues
               ELSE AssignIssueResult(issues, selected.id, assigned.department,
                                      assigned.employee.id, FullName(assigned.employee),
                                      staffName, now)
           call == [updates |-> ModalUpdates(modal, selected, now),
                    changedBy |-> staffName, note |-> <<"Issue updated by staff">>]
           list == UpdateIssueResult(afterAssign, selected.id, call, now)
           index == FindIndex(issues, selected.id)
       IN  /\ issues' = list
           /\ audit' = IF index = 0 THEN audit
                       ELSE Saved(index, list, "staff",
                                  [department |-> modal.department,
                                   assignedToEmployee |-> modal.assignedToEmployee],
                                  assigned, call)
           /\ page' = Spread(Without(page, ModalState),
                             [allIssues |-> SortNewestFirst(list), showModal |-> FALSE])
    /\ UNCHANGED <<now, tabs, submit, users, currentUser, answer>>

\* EmployeeDashboard.handleViewIssue(issue)
EmployeeHandleViewIssue(issue) ==
    /\ Rendered("/employee-dashboard")
    /\ ~page.showModal
    /\ \E i \in 1..Len(page.assignedIssues) : page.assignedIssues[i] = issue
    /\ page' = Spread(page,
                  [selectedIssue |-> issue,
                   modalData |-> [status |-> issue.status,
                                  staffNotes |-> OrEmpty(issue, "staffNotes")],
                   showModal |-> TRUE])
    /\ UNCHANGED <<issues, now, audit, tabs, submit, users, currentUser, answer>>

\* EmployeeDashboard.handleUpdateIssue
EmployeeHandleUpdateIssue ==
    /\ Rendered("/employee-dashboard")
    /\ page.showModal
    /\ MayCall
    /\ LET selected == page.selectedIssue
           call == [updates |-> ModalUpdates(page.modalData, selected, now),
                    changedBy |-> FullName(page.user),
                    note |-> <<"Status updated by employee">>]
           list == UpdateIssueResult(issues, selected.id, call, now)
           index == FindIndex(issues, selected.id)
       IN  /\ issues' = list
           /\ audit' = IF index = 0 THEN audit
                       ELSE Saved(index, list, "employee", Absent, Absent, call)
           /\ page' = Spread(Without(page, ModalState),
                             [assignedIssues |->
                                  SortNewestFirst(getIssuesAssignedToEmployee(list, page.user.id)),
                              showModal |-> FALSE])
    /\ UNCHANGED <<now, tabs, submit, users, currentUser, answer>>

\* what the status select and the notes of a modal may be changed to
ModalChanges == { [status |-> "resolved"], [staffNotes |-> "seen"] }

\* login in another tab of the browser: the session of localStorage is shared,
\* the page of this tab stays as it is
LoginElsewhere(user) ==
    /\ currentUser # user
    /\ currentUser' = user
    /\ UNCHANGED <<issues, now, audit, tabs, submit, users, page, answer>>

\* logout in another tab of the browser
LogoutElsewhere ==
    /\ currentUser # Absent
    /\ currentUser' = Absent
    /\ UNCHANGED <<issues, now, audit, tabs, submit, users, page, answer>>

NextPortal ==
    \/ \E path \in Paths : Open(path)
    \/ \E i \in 1..Len(users) : Login(users[i])
    \/ Logout
    \/ Mount
    \/ \E i \in 1..Len(issues) : StaffHandleViewIssue(issues[i])
    \/ \E department \in Departments \cup {""} : HandleDepartmentChange(department)
    \/ \E employeeId \in {users[i].id : i \in 1..Len(users)} \cup {""} :
            SelectEmployee(employeeId)
    \/ \E change \in ModalChanges : ChangeModal(change)
    \/ CloseModal
    \/ StaffHandleUpdateIssue
    \/ \E i \in 1..Len(issues) : EmployeeHandleViewIssue(issues[i])
    \/ EmployeeHandleUpdateIssue
    \/ \E i \in 1..Len(users) : LoginElsewhere(users[i])
    \/ LogoutElsewhere

SpecPortal == InitPortal /\ [][NextPortal]_vars

----------------------------------------------------------------------------
(* One tab with nothing else touching the session: the user acts on a page   *)
(* once it has rendered, and React runs the useEffect of every page it       *)
(* mounts.  The employee dashboard never renders here: no page links to it   *)
(* and an employee who logs in is not sent to it.                            *)

NextRedirect ==
    \/ Mount
    \/ page.state = "rendered" /\ \E path \in Paths : Open(path)
    \/ \E i \in 1..Len(users) : Login(users[i])
    \/ Logout
    \/ \E i \in 1..Len(issues) : StaffHandleViewIssue(issues[i])
    \/ \E department \in Departments \cup {""} : HandleDepartmentChange(department)
    \/ \E employeeId \in {users[i].id : i \in 1..Len(users)} \cup {""} :
            SelectEmployee(employeeId)
    \/ \E change \in ModalChanges : ChangeModal(change)
    \/ CloseModal
    \/ StaffHandleUpdateIssue

SpecRedirect == InitPortal /\ [][NextRedirect]_vars /\ WF_vars(Mount)

----------------------------------------------------------------------------
(* Vocabulary of the properties *)

Stored == 1..Len(issues)

IsPrefix(s, t) == Len(s) <= Len(t) /\ SubSeq(t, 1, Len(s)) = s

\* the object has field k, with value v
Is(o, k, v) == Has(o, k) /\ o[k] = v

LastEntry(issue) == issue.statusHistory[Len(issue.statusHistory)]

\* the transitions the specification's state graph gives a plain status update
Successors(s) ==
    CASE s = "pending"     -> {"in-progress", "resolved", "rejected"}
      [] s = "in-progress" -> {"pending", "resolved", "rejected"}
      [] s = "rejected"    -> {"pending", "in-progress"}
      [] s = "resolved"    -> {}


----------------------------------------------------------------------------
(* Status updates *)

\* the last operation on the i-th issue was `op` and found the issue
LastWas(i, op) == audit[i].last.op = op /\ Has(audit[i].last, "before")

\* C1, as stated: updateIssue with status pending, in-progress or rejected leaves a
\* resolved issue unchanged, and the only operation that moves an issue out of
\* "resolved" is rejectResolution.
C1_ResolvedLeftOnlyByReject ==
    \A i \in Stored :
        LET last == audit[i].last
        IN  /\ ( /\ LastWas(i, "updateIssue")
                 /\ last.before.status = "resolved"
                 /\ last.call.updates.status # "resolved" )
               => issues[i] = last.before
            /\ ( /\ Has(last, "before")
                 /\ last.before.status = "resolved"
                 /\ issues[i].status # "resolved" )
               => last.op = "rejectResolution"

\* C1, amended: updateIssue with status pending, in-progress or rejected on a resolved
\* issue is applied: the issue takes the new status, one history entry with that status
\* and the caller's name is appended and resolvedAt keeps its value.
C1_ResolvedReopenedByUpdate ==
    \A i \in Stored :
        LET last == audit[i].last
            old == last.before
            new == issues[i]
        IN  ( /\ LastWas(i, "updateIssue")
              /\ old.status = "resolved"
              /\ last.call.updates.status # "resolved" )
            => /\ new.status = last.call.updates.status
               /\ Len(new.statusHistory) = Len(old.statusHistory) + 1
               /\ IsPrefix(old.statusHistory, new.statusHistory)
               /\ LastEntry(new).status = last.call.updates.status
               /\ LastEntry(new).changedBy = last.call.changedBy
               /\ LastEntry(new).changedAt = last.at
               /\ Has(new, "resolvedAt") = Has(old, "resolvedAt")
               /\ Has(old, "resolvedAt") => new.resolvedAt = old.resolvedAt

\* a resolved issue was moved to another status by a staff status update
C1_Witness ==
    \E i \in Stored :
        /\ LastWas(i, "updateIssue")
        /\ audit[i].last.before.status = "resolved"
        /\ audit[i].last.call.updates.status \in {"pending", "in-progress", "rejected"}
        /\ issues[i].status = audit[i].last.call.updates.status

\* C2, as stated: on an issue that is pending, in-progress or rejected a status update
\* to another status t is applied if t is a successor of the current status in the
\* state graph, and otherwise (rejected -> resolved) leaves the issue unchanged.
C2_OnlyGraphTransitions ==
    \A i \in Stored :
        LET last == audit[i].last
            s == last.before.status
            t == last.call.updates.status
        IN  ( /\ LastWas(i, "updateIssue")
              /\ s \in {"pending", "in-progress", "rejected"}
              /\ t # s )
            => IF t \in Successors(s)
               THEN issues[i].status = t
               ELSE issues[i] = last.before

\* C2, amended: on an issue that is pending, in-progress or rejected a status update
\* to any other status t is applied, rejected -> resolved included: the issue takes
\* status t and one history entry with status t is appended.
C2_EveryTransitionApplied ==
    \A i \in Stored :
        LET last == audit[i].last
            old == last.before
            new == issues[i]
            t == last.call.updates.status
        IN  ( /\ LastWas(i, "updateIssue")
              /\ old.status \in {"pending", "in-progress", "rejected"}
              /\ t # old.status )
            => /\ new.status = t
               /\ Len(new.statusHistory) = Len(old.statusHistory) + 1
               /\ IsPrefix(old.statusHistory, new.statusHistory)
               /\ LastEntry(new).status = t

\* a rejected issue was resolved by a status update
C2_Witness ==
    \E i \in Stored :
        /\ LastWas(i, "updateIssue")
        /\ audit[i].last.before.status = "rejected"
        /\ audit[i].last.call.updates.status = "resolved"
        /\ issues[i].status = "resolved"

----------------------------------------------------------------------------
(* The resident's answer to a resolution *)

\* C3, as stated: confirmResolution and rejectResolution on an issue that is not
\* resolved leave the issue unchanged.
C3_AnswerRefusedUnlessResolved ==
    \A i \in Stored :
        ( /\ LastWas(i, "confirmResolution") \/ LastWas(i, "rejectResolution")
          /\ audit[i].last.before.status # "resolved" )
        => issues[i] = audit[i].last.before

\* C3, amended: confirmResolution and rejectResolution on an issue that is not resolved
\* are applied as on a resolved one: confirmResolution sets residentConfirmed and
\* appends an entry with the unchanged status; rejectResolution sets residentRejected
\* and the feedback, puts the status to "in-progress" and appends an entry.
C3_AnswerAppliedInAnyStatus ==
    \A i \in Stored :
        LET last == audit[i].last
            old == last.before
            new == issues[i]
        IN  /\ ( /\ LastWas(i, "confirmResolution")
                 /\ old.status # "resolved" )
               => /\ Is(new, "residentConfirmed", TRUE)
                  /\ new.status = old.status
                  /\ new.statusHistory =
                        Append(old.statusHistory,
                               [status |-> old.status, changedBy |-> last.residentName,
                                changedAt |-> last.at,
                                note |-> <<"Resident confirmed issue has been resolved">>])
            /\ ( /\ LastWas(i, "rejectResolution")
                 /\ old.status # "resolved" )
               => /\ Is(new, "residentRejected", TRUE)
                  /\ Is(new, "residentFeedback", last.feedback)
                  /\ new.status = "in-progress"
                  /\ Len(new.statusHistory) = Len(old.statusHistory) + 1
                  /\ IsPrefix(old.statusHistory, new.statusHistory)
                  /\ LastEntry(new).status = "in-progress"

\* an issue that was never resolved took the resident's confirmation or rejection
C3_Witness ==
    \E i \in Stored :
        /\ LastWas(i, "confirmResolution") \/ LastWas(i, "rejectResolution")
        /\ audit[i].last.before.status # "resolved"
        /\ ~audit[i].everResolved
        /\ Has(issues[i], "residentConfirmed") \/ Has(issues[i], "residentRejected")

----------------------------------------------------------------------------
(* Assignment *)

\* the assignIssue call names an employee outside the pool of its department
ForeignEmployee(last) ==
    \A u \in GetEmployeesByDepartment(last.department) : u.id # last.employee.id

\* C4, as stated: assignIssue with an employee who is not in the pool of the given
\* department leaves the store unchanged.
C4_ForeignEmployeeRefused ==
    \A i \in Stored :
        ( /\ LastWas(i, "assignIssue")
          /\ ForeignEmployee(audit[i].last) )
        => issues[i] = audit[i].last.before

\* C4, amended: assignIssue with an employee who is not in the pool of the given
\* department is applied like any other: department, assignedToEmployee,
\* assignedToEmployeeName, assignedBy and updatedAt are set and one history entry
\* with the unchanged status is appended.
C4_ForeignEmployeeAssigned ==
    \A i \in Stored :
        LET last == audit[i].last
            old == last.before
            new == issues[i]
        IN  ( /\ LastWas(i, "assignIssue")
              /\ ForeignEmployee(last) )
            => /\ Is(new, "department", last.department)
               /\ Is(new, "assignedToEmployee", last.employee.id)
               /\ Is(new, "assignedToEmployeeName", FullName(last.employee))
               /\ Is(new, "assignedBy", last.assignedBy)
               /\ new.updatedAt = last.at
               /\ new.status = old.status
               /\ Len(new.statusHistory) = Len(old.statusHistory) + 1
               /\ IsPrefix(old.statusHistory, new.statusHistory)
               /\ LastEntry(new).status = old.status
               /\ LastEntry(new).changedBy = last.assignedBy

\* an issue was assigned to a department and to an employee of another department
C4_Witness ==
    \E i \in Stored :
        /\ LastWas(i, "assignIssue")
        /\ ForeignEmployee(audit[i].last)
        /\ \E u \in Users : u.id = audit[i].last.employee.id /\ u.role = "employee"
        /\ Has(issues[i], "assignedToEmployee")

\* C5: rejectResolution on a resolved issue puts the status to "in-progress", sets
\* residentRejected and residentFeedback, appends exactly one history entry (status
\* "in-progress", changed by the resident, the note containing the feedback) and
\* leaves resolvedAt at its value.
C5_RejectResolutionReopens ==
    \A i \in Stored :
        LET last == audit[i].last
            old == last.before
            new == issues[i]
        IN  ( /\ LastWas(i, "rejectResolution")
              /\ old.status = "resolved" )
            => /\ new.status = "in-progress"
               /\ Is(new, "residentRejected", TRUE)
               /\ Is(new, "residentFeedback", last.feedback)
               /\ Len(new.statusHistory) = Len(old.statusHistory) + 1
               /\ IsPrefix(old.statusHistory, new.statusHistory)
               /\ LastEntry(new).status = "in-progress"
               /\ LastEntry(new).changedBy = last.residentName
               /\ \E k \in 1..Len(LastEntry(new).note) :
                     LastEntry(new).note[k] = last.feedback
               /\ Has(old, "resolvedAt")
               /\ Has(new, "resolvedAt")
               /\ new.resolvedAt = old.resolvedAt

\* a resolved issue was rejected by the resident with the feedback "Still broken"
C5_Witness ==
    \E i \in Stored :
        /\ LastWas(i, "rejectResolution")
        /\ audit[i].last.before.status = "resolved"
        /\ audit[i].last.feedback = "Still broken"
        /\ issues[i].status = "in-progress"
        /\ Has(issues[i], "resolvedAt")

----------------------------------------------------------------------------
(* The status history *)

\* C6, as stated: the length of statusHistory is 1 plus the number of updateIssue,
\* assignIssue, confirmResolution and rejectResolution calls that found the issue,
\* an updateIssue to the current status included.
C6_HistoryCountsEveryCall ==
    \A i \in Stored : Len(issues[i].statusHistory) = 1 + audit[i].calls

\* C6, amended: the length of statusHistory is 1 plus the number of assignIssue,
\* confirmResolution and rejectResolution calls that found the issue and of updateIssue
\* calls whose status differs from the current one; an updateIssue to the current
\* status appends no entry.
C6_HistoryCountsStatusChanges ==
    \A i \in Stored :
        Len(issues[i].statusHistory) = 1 + audit[i].calls - audit[i].unchanged

\* an issue took a call that appended an entry and an updateIssue to its current status
C6_Witness ==
    \E i \in Stored :
        /\ audit[i].unchanged >= 1
        /\ audit[i].calls > audit[i].unchanged
        /\ Has(issues[i], "staffNotes")

\* C7: every operation leaves the history it found as a prefix of the history it
\* stores, whatever `updates` carries, and the first entry has the status the issue
\* was created with.
C7_HistoryAppendOnly ==
    [][ /\ \A i \in Stored : IsPrefix(issues[i].statusHistory, issues'[i].statusHistory)
        /\ \A i \in 1..Len(issues') :
              /\ Len(issues'[i].statusHistory) >= 1
              /\ issues'[i].statusHistory[1].status = audit'[i].createdStatus
      ]_vars

\* an issue went through two operations that appended to its history
C7_Witness ==
    \E i \in Stored :
        /\ Len(issues[i].statusHistory) >= 3
        /\ issues[i].statusHistory[1].status = audit[i].createdStatus
        /\ issues[i].status # audit[i].createdStatus

----------------------------------------------------------------------------
(* Identity *)

\* C8: no two stored issues have the same id.
C8_IdsUnique ==
    \A i, j \in Stored : i # j => issues[i].id # issues[j].id

----------------------------------------------------------------------------
(* resolvedAt *)

----------------------------------------------------------------------------
(* Interleaved mutations *)

\* the calls of tabs a and b are complete, both read the list before either wrote
\* it, and a wrote first
Overlapped(a, b) ==
    /\ a # b
    /\ tabs[a].pc = "done"
    /\ tabs[b].pc = "done"
    /\ tabs[a].seen < tabs[a].wrote
    /\ tabs[b].seen < tabs[a].wrote
    /\ tabs[a].wrote < tabs[b].wrote

\* the id of the issue the call of `tab` mutates or creates
Target(tab) ==
    IF tabs[tab].op.op = "addIssue" THEN ToString(tabs[tab].at)
    ELSE tabs[tab].op.issueId

\* the overlapped calls of a and b are mutations of the same issue
Interleaved(a, b) ==
    /\ Overlapped(a, b)
    /\ tabs[a].op.op # "addIssue"
    /\ tabs[b].op.op # "addIssue"
    /\ tabs[a].op.issueId = tabs[b].op.issueId

\* C10: when two mutations of the same issue interleave (both read the issue list
\* before either writes it), the store ends as the second writer alone makes it from
\* the list it read: the first writer's field changes and its history entry are not
\* in the final record, whose history is at most one entry longer than the one read.
C10_FirstWriterLost ==
    \A a \in Tabs, b \in Tabs :
        Interleaved(a, b) =>
            LET index == FindIndex(issues, tabs[b].op.issueId)
                old == tabs[b].read[index]
                new == issues[index]
            IN  /\ issues = ApplyOp(tabs[b].op, tabs[b].read, tabs[b].at)
                /\ Len(new.statusHistory) <= Len(old.statusHistory) + 1
                /\ new.updatedAt = tabs[b].at

\* a staff status update and a resident's rejectResolution of a resolved issue
\* interleaved, and the stored record has the resident's entry but not the staff's
C10_Witness ==
    \E a \in Tabs, b \in Tabs :
        /\ Interleaved(a, b)
        /\ tabs[a].op.op = "updateIssue"
        /\ tabs[b].op.op = "rejectResolution"
        /\ LET index == FindIndex(issues, tabs[b].op.issueId)
               old == tabs[b].read[index]
               new == issues[index]
           IN  /\ old.status = "resolved"
               /\ tabs[a].op.call.updates.status = "rejected"
               /\ new.status = "in-progress"
               /\ LastEntry(new).changedBy = ResidentName
               /\ \A k \in 1..Len(new.statusHistory) :
                     new.statusHistory[k] # UpdateEntry(tabs[a].op.call, tabs[a].at)

\* C11, as stated: when the overlapped calls of two tabs are on different issues,
\* no update is lost: after both writes the store holds the issue of the first
\* writer as the first writer stored it (the created report, or the mutated record).
C11_DifferentIssuesKeepUpdates ==
    \A a \in Tabs, b \in Tabs :
        (Overlapped(a, b) /\ Target(a) # Target(b)) =>
            LET wrote == ApplyOp(tabs[a].op, tabs[a].read, tabs[a].at)
            IN  /\ FindIndex(issues, Target(a)) # 0
                /\ issues[FindIndex(issues, Target(a))]
                      = wrote[FindIndex(wrote, Target(a))]

----------------------------------------------------------------------------
(* Unknown ids *)

\* the ids, among those the callers use, that no stored issue has
NotStored == {issueId \in IssueIds : FindIndex(issues, issueId) = 0}

\* C12: updateIssue, assignIssue, confirmResolution and rejectResolution called with
\* an id that is not in the store return null and store the list as it was: no issue
\* is created, modified or given a history entry.
C12_UnknownIdLeavesStore ==
    \A issueId \in NotStored :
        /\ \A call \in UpdateCalls :
              LET list == UpdateIssueResult(issues, issueId, call, now)
              IN  list = issues /\ Returned(issues, issueId, list) = Absent
        /\ \A a \in AssignCalls :
              LET list == AssignIssueResult(issues, issueId, a.department, a.employee.id,
                                            FullName(a.employee), StaffName, now)
              IN  list = issues /\ Returned(issues, issueId, list) = Absent
        /\ LET list == ConfirmResolutionResult(issues, issueId, ResidentName, now)
           IN  list = issues /\ Returned(issues, issueId, list) = Absent
        /\ \A feedback \in Feedbacks :
              LET list == RejectResolutionResult(issues, issueId, ResidentName,
                                                 feedback, now)
              IN  list = issues /\ Returned(issues, issueId, list) = Absent

\* the store is full, calls may still be made, and the id "0" is not stored: each
\* mutation called with it stores the same list
C12_Witness ==
    /\ Len(issues) = MaxIssues
    /\ MayCall
    /\ UnknownId \in NotStored
    /\ \A call \in UpdateCalls :
          UpdateIssueResult(issues, UnknownId, call, now) = issues
    /\ RejectResolutionResult(issues, UnknownId, ResidentName, "Still broken", now) = issues

----------------------------------------------------------------------------
(* The frame of an assignment *)

\* the fields addIssue is given or sets once
CreationFields ==
    {"id", "userId", "userName", "title", "description", "category", "location",
     "createdAt"}

\* the records a and b agree on the fields ks: each is absent in both or equal
SameOn(a, b, ks) ==
    \A k \in ks : Has(a, k) = Has(b, k) /\ (Has(a, k) => a[k] = b[k])

\* C13: an assignIssue that finds its issue sets department, assignedToEmployee,
\* assignedToEmployeeName and assignedBy to the given values, appends exactly one
\* history entry whose status is the issue's current status, and leaves status,
\* resolvedAt, residentConfirmed, residentRejected, residentFeedback and the
\* creation fields as they were.
C13_AssignSetsAssignmentOnly ==
    \A i \in Stored :
        LET last == audit[i].last
            old == last.before
            new == issues[i]
        IN  LastWas(i, "assignIssue")
            => /\ Is(new, "department", last.department)
               /\ Is(new, "assignedToEmployee", last.employee.id)
               /\ Is(new, "assignedToEmployeeName", FullName(last.employee))
               /\ Is(new, "assignedBy", last.assignedBy)
               /\ Len(new.statusHistory) = Len(old.statusHistory) + 1
               /\ IsPrefix(old.statusHistory, new.statusHistory)
               /\ LastEntry(new).status = old.status
               /\ SameOn(old, new, {"status", "resolvedAt", "residentConfirmed",
                                    "residentRejected", "residentFeedback"}
                                   \cup CreationFields)

\* a resolved issue, with its resolvedAt, was assigned
C13_Witness ==
    \E i \in Stored :
        /\ LastWas(i, "assignIssue")
        /\ audit[i].last.before.status = "resolved"
        /\ Has(audit[i].last.before, "resolvedAt")
        /\ Has(issues[i], "resolvedAt")
        /\ Is(issues[i], "assignedToEmployee", "E1")

----------------------------------------------------------------------------
(* The resident's feedback *)

\* C14, as stated: an issue with residentRejected = true has a non-empty
\* residentFeedback, and rejectResolution with empty feedback leaves the issue
\* unchanged.
C14_RejectedHasFeedback ==
    \A i \in Stored :
        /\ Is(issues[i], "residentRejected", TRUE)
           => Has(issues[i], "residentFeedback") /\ issues[i].residentFeedback # ""
        /\ (LastWas(i, "rejectResolution") /\ audit[i].last.feedback = "")
           => issues[i] = audit[i].last.before

\* C14, amended: an issue with residentRejected = true has a residentFeedback, the
\* string rejectResolution was given, which may be empty; rejectResolution with
\* empty feedback is applied like any other: residentRejected is set,
\* residentFeedback is "", the status is "in-progress" and one entry is appended.
C14_RejectedHasFeedbackGiven ==
    \A i \in Stored :
        LET last == audit[i].last
            old == last.before
            new == issues[i]
        IN  /\ Is(new, "residentRejected", TRUE)
               => Has(new, "residentFeedback") /\ new.residentFeedback \in Feedbacks
            /\ (LastWas(i, "rejectResolution") /\ last.feedback = "")
               => /\ Is(new, "residentRejected", TRUE)
                  /\ Is(new, "residentFeedback", "")
                  /\ new.status = "in-progress"
                  /\ Len(new.statusHistory) = Len(old.statusHistory) + 1
                  /\ LastEntry(new).note = RejectNote("")

\* a resolved issue was rejected with empty feedback and is stored as rejected
C14_Witness ==
    \E i \in Stored :
        /\ LastWas(i, "rejectResolution")
        /\ audit[i].last.feedback = ""
        /\ audit[i].last.before.status = "resolved"
        /\ Is(issues[i], "residentRejected", TRUE)
        /\ Is(issues[i], "residentFeedback", "")

----------------------------------------------------------------------------
(* Assignment fields *)

\* C15: an issue with assignedToEmployee set also has a non-empty department, and
\* assignedToEmployee and assignedToEmployeeName are both set or both unset.
C15_AssignedHasDepartment ==
    \A i \in Stored :
        /\ Has(issues[i], "assignedToEmployee") => Truthy(issues[i], "department")
        /\ Has(issues[i], "assignedToEmployee") = Has(issues[i], "assignedToEmployeeName")
        /\ Has(issues[i], "assignedToEmployee")
           => /\ issues[i].assignedToEmployee # ""
              /\ issues[i].assignedToEmployeeName # << >>

\* an assigned issue has since taken a status update and keeps its assignment
C15_Witness ==
    \E i \in Stored :
        /\ LastWas(i, "updateIssue")
        /\ Is(audit[i].last.before, "assignedToEmployee", "E1")
        /\ Is(issues[i], "assignedToEmployee", "E1")
        /\ Truthy(issues[i], "department")

----------------------------------------------------------------------------
(* Creating a report *)

\* the submission under way has ended
Submitted == submit.pc = "done"

\* C16: every issue is created with status "pending" and a statusHistory of exactly
\* one entry, whose status is "pending" and whose changedBy is the system actor, by
\* the form of the resident dashboard and by the photo of the create-report page.
C16_CreatedPending ==
    /\ \A i \in Stored :
          /\ issues[i].status = "pending"
          /\ audit[i].createdStatus = "pending"
          /\ Len(issues[i].statusHistory) = 1
          /\ issues[i].statusHistory[1].status = "pending"
          /\ issues[i].statusHistory[1].changedBy = <<"System">>
    /\ (Submitted /\ submit.stored) => Len(issues) = Len(submit.before) + 1

\* a guest's photo was analysed and the report is stored, pending
C16_Witness ==
    /\ Submitted
    /\ submit.path = "image"
    /\ submit.stored
    /\ Len(issues) = 1
    /\ issues[1].userName = <<"Anonymous Resident">>
    /\ issues[1].status = "pending"
    /\ Len(issues[1].statusHistory) = 1

\* the categories of the enumeration, in its order
Categories == <<"roads", "water", "electricity", "waste", "safety", "parks", "other">>

\* C17, as stated: every stored issue has a non-empty title and description and a
\* category of the enumeration, and a submission whose input has an empty title or
\* description or another category stores nothing.
C17_StoredInputValid ==
    /\ \A i \in Stored :
          /\ issues[i].title # << >>
          /\ issues[i].description # << >>
          /\ \E k \in 1..Len(Categories) : Categories[k] = issues[i].category
    /\ ( /\ Submitted
         /\ submit.path = "image"
         /\ submit.outcome.kind = "json"
         /\ \/ ~Has(submit.outcome.analysis, "category")
            \/ \A k \in 1..Len(Categories) :
                  Categories[k] # submit.outcome.analysis.category )
       => (~submit.stored /\ issues = submit.before)

\* the gateway call of the submission just ended did not give a usable answer
GatewayFailed == submit.outcome.kind # "json"

\* the photo's analysis lacks one of title, description and category
AnalysisIncomplete ==
    /\ submit.outcome.kind = "json"
    /\ \/ \E k \in {"title", "description", "category"} :
             ~Has(submit.outcome.analysis, k)
       \/ submit.outcome.analysis.title = << >>
       \/ submit.outcome.analysis.description = << >>
       \/ submit.outcome.analysis.category = ""

\* C18, as stated: on the form path and on the photo path, a submission whose
\* gateway call failed ends with the issue stored.
C18_FailureStillStores ==
    (Submitted /\ GatewayFailed)
       => (submit.stored /\ Len(issues) = Len(submit.before) + 1)

\* C18, as the code has it: a form submission always ends with the issue stored
\* under the category and priority the resident chose, whatever the gateway did; a
\* photo submission whose analysis failed or is incomplete stores nothing and
\* leaves the store as it was.
C18_FormStoresPhotoFails ==
    Submitted =>
       IF submit.path = "form"
       THEN /\ submit.stored
            /\ Len(issues) = Len(submit.before) + 1
            /\ SubSeq(issues, 1, Len(submit.before)) = submit.before
            /\ issues[Len(issues)].category = submit.form.category
            /\ issues[Len(issues)].priority = submit.form.priority
            /\ issues[Len(issues)].aiCategory = submit.aiResult.category
       ELSE (GatewayFailed \/ AnalysisIncomplete)
               => (~submit.stored /\ issues = submit.before)

\* the analysis of a photo failed on the network and no report was stored
C18_Witness ==
    /\ Submitted
    /\ submit.path = "image"
    /\ submit.outcome.kind = "networkError"
    /\ ~submit.stored
    /\ issues = submit.before

\* c is one of the categories of the enumeration
IsCategory(c) == \E k \in 1..Len(Categories) : Categories[k] = c

\* the gateway answered the form submission just ended with a category of the
\* enumeration
GatewaySuggested ==
    /\ submit.outcome.kind = "json"
    /\ Has(submit.outcome.result, "category")
    /\ IsCategory(submit.outcome.result.category)

\* C19: categorizeIssue always returns a category of the enumeration; it returns
\* the gateway's category only when the gateway's answer parsed to a category of
\* the enumeration, and the result of the keyword classifier for every other
\* outcome (HTTP error, no text, no JSON, unparsable JSON, network error, a
\* category outside the enumeration or none).
C19_SuggestionOrFallback ==
    (Submitted /\ submit.path = "form") =>
       /\ IsCategory(submit.aiResult.category)
       /\ IF GatewaySuggested
          THEN submit.aiResult.category = submit.outcome.result.category
          ELSE submit.aiResult =
                  categorizeIssueKeywordBased(submit.form.title, submit.form.description)

\* the gateway answered "infrastructure" for the burst pipe and the keyword
\* classifier's "water" was returned instead
C19_Witness ==
    /\ Submitted
    /\ submit.path = "form"
    /\ submit.outcome.kind = "json"
    /\ Has(submit.outcome.result, "category")
    /\ submit.outcome.result.category = "infrastructure"
    /\ submit.aiResult.category = "water"
    /\ Len(issues) = 1
    /\ issues[1].aiCategory = "water"

\* the text the keyword classifier reads for the form submission just ended
FormText == ToLowerCase(submit.form.title \o <<" ">> \o submit.form.description)

\* how many keywords of the k-th category's list the text contains
MatchCount(k) ==
    Cardinality({ j \in 1..Len(categoryPatterns[k].keywords) :
                     Includes(FormText, ToLowerCase(categoryPatterns[k].keywords[j])) })

\* the title and the description of scenario A
BurstPipe ==
    /\ submit.form.title = <<"B", "u", "r", "s", "t", " ", "p", "i", "p", "e">>
    /\ submit.form.description = <<"W", "a", "t", "e", "r", " ", "f", "l", "o", "o", "d", "i", "n", "g", " ", "s", "t", "r", "e", "e", "t">>

\* C20: when the keyword classifier is used, the category it returns has the
\* highest number of matched keywords, every category earlier in the order roads,
\* water, electricity, waste, safety, parks, other has strictly fewer, it is
\* "other" when no keyword matches, and the confidence is min(matched / 5, 1);
\* "Burst pipe" with "Water flooding street" gives "water" with confidence of at
\* least 0.6.
C20_KeywordClassifier ==
    (Submitted /\ submit.path = "form" /\ ~GatewaySuggested) =>
       /\ \A k \in 1..Len(Categories) : categoryPatterns[k].category = Categories[k]
       /\ \E k \in 1..Len(Categories) :
             /\ submit.aiResult.category = Categories[k]
             /\ IF \A j \in 1..Len(Categories) : MatchCount(j) = 0
                THEN /\ Categories[k] = "other"
                     /\ submit.aiResult.confidence.num = 0
                ELSE /\ \A j \in 1..Len(Categories) : MatchCount(j) <= MatchCount(k)
                     /\ \A j \in 1..(k - 1) : MatchCount(j) < MatchCount(k)
                     /\ submit.aiResult.confidence.num * maxPossibleScore =
                           submit.aiResult.confidence.den *
                              (IF MatchCount(k) < 5 THEN MatchCount(k) ELSE 5)
       /\ submit.aiResult.confidence.num <= submit.aiResult.confidence.den
       /\ BurstPipe =>
             /\ submit.aiResult.category = "water"
             /\ submit.aiResult.confidence.num * 5 >= 3 * submit.aiResult.confidence.den

\* the gateway was unavailable for the burst pipe and the keyword classifier gave
\* "water" with confidence 4/5
C20_Witness ==
    /\ Submitted
    /\ submit.path = "form"
    /\ submit.outcome.kind = "httpError"
    /\ BurstPipe
    /\ submit.aiResult.category = "water"
    /\ submit.aiResult.confidence = [num |-> 4, den |-> 5]
    /\ Len(issues) = 1
    /\ issues[1].aiCategory = "water"

\* a tie between roads and water went to roads
C20_TieWitness ==
    /\ Submitted
    /\ submit.path = "form"
    /\ ~GatewaySuggested
    /\ MatchCount(1) = 1
    /\ MatchCount(2) = 1
    /\ submit.aiResult.category = "roads"

\* the last query was the named one
Asked(query) == answer # Absent /\ answer.query = query

\* the positions of the directory the last query read that hold an employee of
\* the department asked for
EmployeesAsked ==
    { j \in 1..Len(answer.directory) :
         /\ Has(answer.directory[j], "role")
         /\ answer.directory[j].role = "employee"
         /\ Has(answer.directory[j], "department")
         /\ answer.directory[j].department = answer.department }

\* C21: getEmployeesByDepartment returns exactly the members of the directory that
\* are employees of the department asked for, each once and in the directory's
\* order, an empty list when there is none, and the call leaves the directory as
\* it was.
C21_CandidatesFor ==
    /\ [](Asked("getEmployeesByDepartment") =>
            /\ Len(answer.value) = Cardinality(EmployeesAsked)
            /\ \A j \in EmployeesAsked :
                  \E i \in 1..Len(answer.value) : answer.value[i] = answer.directory[j]
            /\ \A i \in 1..Len(answer.value) :
                  \E j \in EmployeesAsked : answer.value[i] = answer.directory[j]
            /\ (EmployeesAsked = {}) => answer.value = << >>)
    /\ [][answer' # answer => users' = users /\ answer'.directory = users]_vars

\* the water department was asked for in a directory that holds its employee, a
\* staff member carrying the same department and a new registration, and only
\* the employee was returned
C21_Witness ==
    /\ Asked("getEmployeesByDepartment")
    /\ answer.department = "water"
    /\ answer.directory = users
    /\ \E i \in 1..Len(users) : users[i].id = "S2"
    /\ \E i \in 1..Len(users) : ~Has(users[i], "role")
    /\ Len(answer.value) = 1
    /\ answer.value[1].id = "E1"

\* parks was asked for and the answer is the empty list
C21_EmptyWitness ==
    /\ Asked("getEmployeesByDepartment")
    /\ answer.department = "parks"
    /\ Len(answer.directory) > 0
    /\ answer.value = << >>

\* the category names in ascending order
Alphabetical == <<"electricity", "other", "parks", "roads", "safety", "waste", "water">>

NameRank(c) == CHOOSE k \in 1..Len(Alphabetical) : Alphabetical[k] = c

\* where the category c first occurs in the list the last query read
FirstAt(c) ==
    CHOOSE i \in 1..Len(answer.issues) :
        /\ answer.issues[i].category = c
        /\ \A j \in 1..(i - 1) : answer.issues[j].category # c

\* the categories of the issues the last query read, in their order
CategoriesAsked == [i \in 1..Len(answer.issues) |-> answer.issues[i].category]

\* the last query's answer has one entry per category present, with the number of
\* issues of the category and round(100 * count / total)
BreakdownCounts ==
    /\ Len(answer.value) = Cardinality({ CategoriesAsked[i] : i \in 1..Len(answer.issues) })
    /\ \A p \in 1..Len(answer.value) :
          LET e == answer.value[p]
              total == Len(answer.issues)
          IN  /\ e.count = Cardinality({ i \in 1..total : CategoriesAsked[i] = e.category })
              /\ e.count > 0
              /\ 2 * total * e.percentage <= 200 * e.count + total
              /\ 200 * e.count + total < 2 * total * (e.percentage + 1)

\* C22, as stated: the entries are ordered by count descending and, among equal
\* counts, by category name ascending, whatever the order of the issues.
C22_TiesByName ==
    Asked("getCategoryBreakdown") =>
       /\ BreakdownCounts
       /\ \A p, q \in 1..Len(answer.value) :
             p < q =>
                \/ answer.value[p].count > answer.value[q].count
                \/ /\ answer.value[p].count = answer.value[q].count
                   /\ NameRank(answer.value[p].category) < NameRank(answer.value[q].category)

\* C22, as the code has it: one entry per category present with its count and
\* round(100 * count / total), ordered by count descending; categories of equal
\* count come in the order of their first occurrence among the issues.  Water,
\* water, roads gives water 2 67, roads 1 33.
C22_TiesByFirstOccurrence ==
    Asked("getCategoryBreakdown") =>
       /\ BreakdownCounts
       /\ \A p, q \in 1..Len(answer.value) :
             p < q =>
                \/ answer.value[p].count > answer.value[q].count
                \/ /\ answer.value[p].count = answer.value[q].count
                   /\ FirstAt(answer.value[p].category) < FirstAt(answer.value[q].category)
       /\ (CategoriesAsked = <<"water", "water", "roads">>) =>
             answer.value = << [category |-> "water", count |-> 2, percentage |-> 67],
                               [category |-> "roads", count |-> 1, percentage |-> 33] >>

\* water and roads have one issue each, water was reported first and comes first
C22_Witness ==
    /\ Asked("getCategoryBreakdown")
    /\ CategoriesAsked = <<"water", "roads">>
    /\ answer.value = << [category |-> "water", count |-> 1, percentage |-> 50],
                         [category |-> "roads", count |-> 1, percentage |-> 50] >>
    /\ issues = answer.issues

\* the issues the last summary was computed from: those of the user asked for,
\* or all
Summarised ==
    IF answer.userId = "" THEN answer.issues
    ELSE SelectSeq(answer.issues, LAMBDA i : i.userId = answer.userId)

\* the whole days a resolved issue took: the least d with d days >= updatedAt - createdAt
DaysTaken(issue) ==
    CHOOSE d \in 0..(issue.updatedAt + issue.createdAt) :
        /\ d * DayLength >= Abs(issue.updatedAt - issue.createdAt)
        /\ (d - 1) * DayLength < Abs(issue.updatedAt - issue.createdAt)

\* the days taken by the resolved issues among the first n summarised, added up
RECURSIVE ResolvedDays(_)
ResolvedDays(n) ==
    IF n = 0 THEN 0
    ELSE ResolvedDays(n - 1)
            + (IF Summarised[n].status = "resolved" THEN DaysTaken(Summarised[n]) ELSE 0)

ResolvedCount == Cardinality({ n \in 1..Len(Summarised) : Summarised[n].status = "resolved" })

\* C23, as stated: the average resolution time is the arithmetic mean of the days
\* taken by the resolved issues, and 0 when none is resolved.
C23_ExactMean ==
    Asked("getAnalyticsSummary") =>
       IF ResolvedCount = 0 THEN answer.value.avgResolutionTime = 0
       ELSE answer.value.avgResolutionTime * ResolvedCount = ResolvedDays(Len(Summarised))

\* C23, as the code has it: the average resolution time is the arithmetic mean of
\* the days taken by the resolved issues, rounded to the nearest whole day (a half
\* goes up), and 0 when none is resolved.
C23_RoundedMean ==
    Asked("getAnalyticsSummary") =>
       IF ResolvedCount = 0 THEN answer.value.avgResolutionTime = 0
       ELSE LET avg == answer.value.avgResolutionTime
                total == ResolvedDays(Len(Summarised))
            IN  /\ 2 * ResolvedCount * avg <= 2 * total + ResolvedCount
                /\ 2 * total + ResolvedCount < 2 * ResolvedCount * (avg + 1)

\* two issues were resolved, in one day and in two, and the average is 2
C23_Witness ==
    /\ Asked("getAnalyticsSummary")
    /\ answer.userId = ""
    /\ ResolvedCount = 2
    /\ ResolvedDays(Len(Summarised)) = 3
    /\ Len(Summarised) = 3
    /\ answer.value.avgResolutionTime = 2

\* the confidences of the issues the last query read that have one set
ConfidencesSet ==
    LET withOne == SelectSeq(answer.issues, LAMBDA i : Has(i, "aiConfidence"))
    IN  [n \in 1..Len(withOne) |-> withOne[n].aiConfidence]

\* the value v is the fraction num / den in hundredths, rounded with halves up
IsPercentOf(v, num, den) ==
    /\ 2 * den * v <= 200 * num + den
    /\ 200 * num + den < 2 * den * (v + 1)

\* C24, as stated: the average confidence is the mean of the confidence over the
\* issues that have one set, a confidence of 0 included (in hundredths, as the
\* code returns it), and 0 when no issue has one.
C24_MeanOfSetConfidences ==
    Asked("getAverageAIConfidence") =>
       IF Len(ConfidencesSet) = 0 THEN answer.value = 0
       ELSE LET sum == SumFractions(ConfidencesSet)
            IN  IsPercentOf(answer.value, sum.num, sum.den * Len(ConfidencesSet))

\* C26: getIssuesStats and getAnalyticsSummary only read the store: a step in
\* which one of them returns leaves the stored issues as they were and answers
\* from exactly those issues; and for the stored issues of every reachable state
\* the total of getIssuesStats is the number of issues and the sum of its pending,
\* in-progress, resolved and rejected counts.
C26_StatsReadOnly ==
    /\ [](LET stats == getIssuesStats(issues)
          IN  /\ stats.total = Len(issues)
              /\ stats.total = stats.pending + stats.inProgress + stats.resolved
                                  + stats.rejected)
    /\ [](Asked("getIssuesStats") =>
             answer.value.total = answer.value.pending + answer.value.inProgress
                                     + answer.value.resolved + answer.value.rejected)
    /\ [][answer' # answer => issues' = issues /\ answer'.issues = issues]_vars

\* the statistics of a pending, a resolved and a rejected issue were asked for
\* and the store still holds the three
C26_Witness ==
    /\ Asked("getIssuesStats")
    /\ answer.value.total = 3
    /\ answer.value.pending = 1
    /\ answer.value.resolved = 1
    /\ answer.value.rejected = 1
    /\ issues = answer.issues
    /\ Len(issues) = 3

(* C28: whenever the save of the staff modal calls assignIssue, the employee   *)
(* it passes is an employee of the department it passes, whatever issue was   *)
(* opened and however the department and the employee were selected.          *)
StaffSaves ==
    { i \in 1..Len(audit) : audit[i].last.op = "handleUpdateIssue"
                            /\ audit[i].last.dashboard = "staff" }

C28_EmployeeOfDepartment ==
    \A i \in StaffSaves :
        LET assigned == audit[i].last.assigned
        IN  assigned # Absent =>
                /\ RoleOf(assigned.employee) = "employee"
                /\ Has(assigned.employee, "department")
                /\ assigned.employee.department = assigned.department

\* a save that assigned the water report to the employee of the roads department,
\* selected after the department was changed
C28_Witness ==
    \E i \in StaffSaves :
        /\ audit[i].last.assigned # Absent
        /\ audit[i].last.assigned.department = "roads"
        /\ audit[i].last.assigned.employee.id = "E2"
        /\ audit[i].last.before.category = "water"

(* C30: a save of the staff modal on an issue that is already assigned, made   *)
(* with the department and the employee the issue is stored with, does not    *)
(* assign the issue again: assignedAt and assignedBy keep their values and    *)
(* the history gets no assignment entry.                                      *)
AssignmentEntries(issue) ==
    SelectSeq(HistoryOf(issue), LAMBDA entry :
        Has(entry, "note") /\ entry.note # << >> /\ entry.note[1] = "Assigned to ")

\* the staff saves whose modal held the assignment the issue was stored with
SelectionKept ==
    { i \in StaffSaves :
        LET before == audit[i].last.before
            modal == audit[i].last.selection
        IN  /\ Truthy(before, "assignedToEmployee")
            /\ Truthy(before, "department")
            /\ modal = [department |-> before.department,
                        assignedToEmployee |-> before.assignedToEmployee] }

C30_SaveKeepsAssignment ==
    \A i \in SelectionKept :
        LET before == audit[i].last.before
        IN  /\ issues[i].assignedAt = before.assignedAt
            /\ issues[i].assignedBy = before.assignedBy
            /\ Len(AssignmentEntries(issues[i])) = Len(AssignmentEntries(before))

(* C25: mutation rights follow the role of the logged-in user: the staff save *)
(* (assignIssue and the staff status update) runs only while the session is   *)
(* a staff member's, the employee save only on an issue assigned to the       *)
(* employee of the session, and no save runs in a resident's session.         *)
ModalSaves == { i \in 1..Len(audit) : audit[i].last.op = "handleUpdateIssue" }

C25_RightsFollowRole ==
    \A i \in ModalSaves :
        LET last == audit[i].last
        IN  /\ last.dashboard = "staff" => RoleOf(last.session) = "staff"
            /\ last.dashboard = "employee" =>
                  /\ RoleOf(last.session) = "employee"
                  /\ Truthy(last.before, "assignedToEmployee")
                  /\ last.before.assignedToEmployee = last.session.id
            /\ RoleOf(last.session) # "resident"

(* C27: for a logged-in user of any role, the redirects of the role guards    *)
(* that start at login or at opening a dashboard come to an end: a page is    *)
(* reached that renders for the user.                                         *)
C27_RedirectsEnd ==
    (page.state = "mounting" /\ currentUser # Absent) ~> (page.state = "rendered")

(* C29: in every reachable state no issue has residentConfirmed = true and    *)
(* residentRejected = true at the same time, whatever updates, confirmations  *)
(* and rejections were made.                                                  *)
C29_OneVerdict ==
    \A i \in 1..Len(issues) :
        ~(Is(issues[i], "residentConfirmed", TRUE) /\ Is(issues[i], "residentRejected", TRUE))

====
